---------------------------- MODULE Spec2Model ----------------------------
(***************************************************************************)
(* Model of the data grid / resampling core of quantiphyse                 *)
(* (src/quantiphyse/data/qpdata.py): DataGrid, QpData.                     *)
(*                                                                         *)
(* Conventions                                                             *)
(*  - Python lists and numpy axes are 0-based: a list of length n is a     *)
(*    function with domain 0..n-1.  Lists built with append() whose length *)
(*    varies (dim_flip) are sequences.                                     *)
(*  - A 4x4 matrix is a function [0..3 -> [0..3 -> Int]] (row, column).    *)
(*  - Grid affines are integer matrices.  The transform between two grids  *)
(*    inv(A) * B is a rational matrix, kept exactly as a record            *)
(*    [num |-> integer matrix, den |-> positive integer].                  *)
(*  - A sample value is a record [hi, lo, half] standing for               *)
(*    hi * 2^16 + lo + half/2 with 0 <= lo < 2^16, so that values around   *)
(*    2^31 and 2^32 are exact.                                             *)
(*  - The code is Python 2: range(3) is the list [0, 1, 2].                *)
(***************************************************************************)
EXTENDS Integers, Sequences, FiniteSets, TLC

VARIABLES grids, objs, res

vars == <<grids, objs, res>>

(***************************************************************************)
(* Bounds of the model                                                     *)
(***************************************************************************)
\* Largest number of voxels along one grid axis
MaxDim == 2

\* Number of volumes of the 4D data sets
MaxVols == 2

(***************************************************************************)
(* Program constants                                                       *)
(***************************************************************************)
\* EQ_TOL = 1e-3 as the fraction 1 / EQ_TOL_DEN
EQ_TOL_DEN == 1000

\* 2**32, the ROI value limit, is LimbBase * LimbBase
LimbBase == 65536

(***************************************************************************)
(* Integer, list and matrix helpers (numpy primitives)                     *)
(***************************************************************************)
Abs(x) == IF x < 0 THEN -x ELSE x

\* F(e) with e evaluated once, before F is applied to its value
Eval(F(_), e) == CHOOSE y \in {F(x) : x \in {e}} : TRUE

range3 == [i \in 0..2 |-> i]

\* An absent optional argument or attribute (None) and a present one
None == <<>>

Some(x) == <<x>>

\* np.argmax over a list of length n: the first index holding the maximum
ArgMax(f, n) ==
    CHOOSE i \in 0..(n-1) :
        /\ \A j \in 0..(n-1) : f[j] <= f[i]
        /\ \A j \in 0..(n-1) : j < i => f[j] < f[i]

\* list.index(x): first index holding x, or -1 when there is none (ValueError)
IndexOf(f, n, x) ==
    IF \E i \in 0..(n-1) : f[i] = x
    THEN CHOOSE i \in 0..(n-1) : f[i] = x /\ \A j \in 0..(n-1) : j < i => f[j] # x
    ELSE -1

identity4 == [r \in 0..3 |-> [c \in 0..3 |-> IF r = c THEN 1 ELSE 0]]

\* np.dot of two 4x4 matrices
MatMul(A, B) ==
    [r \in 0..3 |-> [c \in 0..3 |->
        A[r][0]*B[0][c] + A[r][1]*B[1][c] + A[r][2]*B[2][c] + A[r][3]*B[3][c]]]

\* determinant of the 3x3 linear part
Det3(M) ==
      M[0][0] * (M[1][1]*M[2][2] - M[1][2]*M[2][1])
    - M[0][1] * (M[1][0]*M[2][2] - M[1][2]*M[2][0])
    + M[0][2] * (M[1][0]*M[2][1] - M[1][1]*M[2][0])

\* adjugate of the 3x3 linear part: inverse = Adj3 / Det3
Adj3(M) ==
    [r \in 0..2 |-> [c \in 0..2 |->
          M[(c+1) % 3][(r+1) % 3] * M[(c+2) % 3][(r+2) % 3]
        - M[(c+1) % 3][(r+2) % 3] * M[(c+2) % 3][(r+1) % 3]]]

\* A rational matrix with a positive denominator
Rat(num, den) ==
    IF den < 0
    THEN [num |-> [r \in 0..3 |-> [c \in 0..3 |-> -num[r][c]]], den |-> -den]
    ELSE [num |-> num, den |-> den]

\* np.linalg.inv of an affine matrix [T o; 0 0 0 1] = [T^-1, -T^-1 o; 0 0 0 1]
MatInv(M) ==
    LET d == Det3(M)
        a == Adj3(M)
    IN Rat([r \in 0..3 |-> [c \in 0..3 |->
                IF r < 3 /\ c < 3 THEN a[r][c]
                ELSE IF r < 3 THEN -(a[r][0]*M[0][3] + a[r][1]*M[1][3] + a[r][2]*M[2][3])
                ELSE IF c < 3 THEN 0
                ELSE d]], d)

\* np.dot(rational matrix, integer matrix)
RatMul(R, B) == [num |-> MatMul(R.num, B), den |-> R.den]

(***************************************************************************)
(* Tolerance tests                                                         *)
(***************************************************************************)
\* |x/den - target| < EQ_TOL
WithinTol(x, target, den) == Abs(x - target * den) * EQ_TOL_DEN < den

is_identity_no_diagonal(mat) ==
    \A r \in 0..3 : \A c \in 0..3 : WithinTol(mat.num[r][c], 0, mat.den)

\* is_identity(mat): np.all(np.abs(mat - np.identity(4)) < EQ_TOL)

is_identity(mat) ==
    \A r \in 0..3 : \A c \in 0..3 :
        WithinTol(mat.num[r][c], IF r = c THEN 1 ELSE 0, mat.den)

(***************************************************************************)
(* DataGrid                                                                *)
(***************************************************************************)
\* DataGrid.__init__: the instance attributes the operations read
DataGrid(shape, affine) == [shape |-> shape, affine |-> affine]

\* self.transform: 3x3 submatrix of the affine; self.origin: last column
Transform(grid) == [r \in 0..2 |-> [c \in 0..2 |-> grid.affine[r][c]]]

Origin(grid) == [r \in 0..2 |-> grid.affine[r][3]]

\* DataGrid.grid_to_world for an integer grid co-ordinate (position)
grid_to_world(grid, coord) ==
    [r \in 0..2 |->
        grid.affine[r][0]*coord[0] + grid.affine[r][1]*coord[1]
        + grid.affine[r][2]*coord[2] + grid.affine[r][3]]

\* the row picked for column dim: np.argmax(absmat[:, dim])
simplify_pick(M, dim) == ArgMax([r \in 0..3 |-> Abs(M[r][dim])], 4)

\* dim_flip: dim_flip.append(newd) for dim = 0, 1, 2 in turn when
\* mat[newd, dim] < 0
simplify_flips(M, dim_order) ==
    LET flipOf(dim) == IF M[dim_order[dim]][dim] < 0 THEN <<dim_order[dim]>> ELSE <<>>
    IN flipOf(0) \o flipOf(1) \o flipOf(2)

\* new_mat in the consistent case: columns moved (new_mat[:, dim_order[idx]]
\* = mat[:, idx]), flipped columns negated, and the origin moved by
\* new_mat[:3, dim] * (new_shape[dim]-1) for every flipped dim,
\* with new_shape = [self.shape[d] for d in dim_order]
simplify_new_mat(shape, M, dim_order, dim_flip) ==
    LET new_shape == [i \in 0..2 |-> shape[dim_order[i]]]
        flipped(d) == \E i \in 1..Len(dim_flip) : dim_flip[i] = d
        src(c) == CHOOSE idx \in 0..2 : dim_order[idx] = c
        col(r, c) == IF flipped(c) THEN -M[r][src(c)] ELSE M[r][src(c)]
        shift(r, d) == IF flipped(d) THEN col(r, d) * (new_shape[d] - 1) ELSE 0
    IN [r \in 0..3 |-> [c \in 0..3 |->
            IF c < 3 THEN col(r, c)
            ELSE IF r < 3 THEN M[r][3] - shift(r, 0) - shift(r, 1) - shift(r, 2)
            ELSE M[r][3]]]

simplify_with_order_keep(shape, mat, dim_order) ==
    IF {dim_order[i] : i \in 0..2} = 0..2
    THEN LET dim_flip == simplify_flips(mat.num, dim_order)
         IN [dim_order |-> dim_order, dim_flip |-> dim_flip,
             new_mat |-> [num |-> simplify_new_mat(shape, mat.num, dim_order, dim_flip),
                          den |-> mat.den]]
    ELSE [dim_order |-> dim_order, dim_flip |-> simplify_flips(mat.num, dim_order),
          new_mat |-> mat]

\* the two outcomes of simplify_transforms, given the picked rows
simplify_with_order(shape, mat, dim_order) ==
    IF {dim_order[i] : i \in 0..2} = 0..2
    THEN LET dim_flip == simplify_flips(mat.num, dim_order)
         IN [dim_order |-> dim_order, dim_flip |-> dim_flip,
             new_mat |-> [num |-> simplify_new_mat(shape, mat.num, dim_order, dim_flip),
                          den |-> mat.den]]
    ELSE [dim_order |-> range3, dim_flip |-> <<>>, new_mat |-> mat]

simplify_of_matrix(shape, mat) ==
    Eval(LAMBDA dim_order : simplify_with_order(shape, mat, dim_order),
         [dim \in 0..2 |-> simplify_pick(mat.num, dim)])

\* DataGrid.simplify_transforms(mat), mat rational; returns the
\* tuple (dim_order, dim_flip, new_mat) as a record
simplify_transforms(grid, mat) ==
    Eval(LAMBDA m : simplify_of_matrix(grid.shape, m), mat)

\* DataGrid.get_standard
get_standard(grid) ==
    LET s == simplify_transforms(grid, [num |-> grid.affine, den |-> 1])
        new_shape == [i \in 0..2 |-> grid.shape[s.dim_order[i]]]
    IN DataGrid(new_shape, s.new_mat.num)

get_ras_axes_forward(grid) ==
    LET T == Transform(grid)
        world_axes == [axis \in 0..2 |-> ArgMax([r \in 0..2 |-> Abs(T[r][axis])], 3)]
    IN  IF \E axis \in 0..2 : IndexOf(world_axes, 3, axis) = -1
        THEN [status |-> "error", err |-> "ValueError", value |-> <<>>]
        ELSE [status |-> "ok", err |-> "",
              value |-> [i \in 0..3 |-> IF i < 3 THEN world_axes[i] ELSE 3]]

\* DataGrid.get_ras_axes: the list of 4 axes, or the ValueError of list.index
get_ras_axes(grid) ==
    LET T == Transform(grid)
        world_axes == [axis \in 0..2 |-> ArgMax([r \in 0..2 |-> Abs(T[r][axis])], 3)]
        grid_axes == [axis \in 0..2 |-> IndexOf(world_axes, 3, axis)]
    IN  IF \E axis \in 0..2 : grid_axes[axis] = -1
        THEN [status |-> "error", err |-> "ValueError", value |-> <<>>]
        ELSE [status |-> "ok", err |-> "",
              value |-> [i \in 0..3 |-> IF i < 3 THEN grid_axes[i] ELSE 3]]

(***************************************************************************)
(* Sample values and numpy arrays                                          *)
(***************************************************************************)
\* The number hi * LimbBase + lo + half/2
Num(hi, lo, half) == [hi |-> hi, lo |-> lo, half |-> half]

\* A small non-negative integer sample
Smp(n) == Num(0, n, 0)

IsNegative(v) == v.hi < 0

\* v > 2**32
Above2Pow32(v) == v.hi > LimbBase \/ (v.hi = LimbBase /\ (v.lo > 0 \/ v.half > 0))

\* np.equal(np.mod(v, 1), 0)
IsInteger(v) == v.half = 0

\* All index tuples of an array of the given shape
Indices(shape) ==
    LET m == CHOOSE k \in {shape[a] : a \in DOMAIN shape} :
                 \A a \in DOMAIN shape : shape[a] <= k
    IN {idx \in [DOMAIN shape -> 0..(m-1)] : \A a \in DOMAIN shape : idx[a] < shape[a]}

ndim(data) == Cardinality(DOMAIN data.shape)

\* np.transpose(data, axes): new axis i is old axis axes[i]
np_transpose_of(data, axes) ==
    LET D == DOMAIN data.shape
        new_shape == [i \in D |-> data.shape[axes[i]]]
        old(idx) == [a \in D |-> idx[CHOOSE i \in D : axes[i] = a]]
    IN [shape |-> new_shape,
        val |-> [idx \in Indices(new_shape) |-> data.val[old(idx)]]]

np_transpose(data, axes) == Eval(LAMBDA d : np_transpose_of(d, axes), data)

np_flip_of(data, dim) ==
    [shape |-> data.shape,
     val |-> [idx \in Indices(data.shape) |->
                 data.val[[idx EXCEPT ![dim] = data.shape[dim] - 1 - idx[dim]]]]]

\* np.flip(data, dim): reverse the order of the samples along axis dim
np_flip(data, dim) == Eval(LAMBDA d : np_flip_of(d, dim), data)

\* for dim in flip: data = np.flip(data, dim)
RECURSIVE flip_all(_, _)
flip_all(data, flip) ==
    IF flip = <<>> THEN data
    ELSE flip_all(np_flip(data, Head(flip)), Tail(flip))

\* data.astype(np.int32) of one sample that passed the range check: the
\* fraction is dropped; a value of 2**31 or more does not fit, and is
\* wrapped modulo 2**32 (integer input) or becomes the smallest int32
\* (float input), according to mode
astype_int32(v, mode) ==
    IF 2 * v.hi < LimbBase THEN Num(v.hi, v.lo, 0)
    ELSE IF mode = "wrap" THEN Num(v.hi - LimbBase, v.lo, 0)
    ELSE Num(0 - (LimbBase \div 2), 0, 0)

CastModes == {"wrap", "min"}

\* Samples scipy.ndimage.affine_transform can produce with spline order > 0:
\* -1, 1, 1.5, 2**31, 2**32, 2**32 + 1
InterpValues ==
    {Num(-1, LimbBase - 1, 0), Smp(1), Num(0, 1, 1),
     Num(LimbBase \div 2, 0, 0), Num(LimbBase, 0, 0), Num(LimbBase, 1, 0)}

Orders == {0, 1}

\* scipy.ndimage.affine_transform(data, affine, offset, output_shape, order):
\* an external routine.  Its output has shape output_shape.  With order 0
\* (nearest neighbour) every output sample is an input sample or the fill
\* value 0; with a higher order the samples are interpolated values.  The
\* outputs modelled hold one value at the first index and another elsewhere.
affine_transform_outputs(data, output_shape, order) ==
    LET first == [a \in DOMAIN data.shape |-> 0]
        last == [a \in DOMAIN data.shape |-> data.shape[a] - 1]
        pool == IF order = 0 THEN {Smp(0), data.val[first], data.val[last]}
                ELSE InterpValues
        zero == [a \in DOMAIN output_shape |-> 0]
    IN {[shape |-> output_shape,
         val |-> [idx \in Indices(output_shape) |-> IF idx = zero THEN v.a ELSE v.b]] :
            v \in [a : pool, b : pool]}

(***************************************************************************)
(* QpData                                                                  *)
(***************************************************************************)
\* The attributes of a QpData instance; grid is a reference to a DataGrid
QpData(name, grid, nvols, roi, rawdata) ==
    [name |-> name, grid |-> grid, nvols |-> nvols,
     ndim |-> IF nvols = 1 THEN 3 ELSE 4,
     raw_2dt |-> FALSE, _regions |-> None, roi |-> roi, rawdata |-> rawdata]

\* NumpyData.raw(): the in-memory sample array
raw(self) == self.rawdata

\* The outcome of the last call
NoRes == [op |-> "none", status |-> "ok", err |-> ""]

\* output_shape = grid.shape[:] (+ [data.shape[3]] for 4D data)
resample_output_shape(data, grid) ==
    IF ndim(data) = 4
    THEN [i \in 0..3 |-> IF i < 3 THEN grid.shape[i] ELSE data.shape[3]]
    ELSE grid.shape

\* The transposition and the flips of resample, given the simplified transform
resample_reorder(data, s) ==
    LET reorder == IF ndim(data) = 4
                   THEN [i \in 0..3 |-> IF i < 3 THEN s.dim_order[i] ELSE 3]
                   ELSE s.dim_order
        transposed == IF s.dim_order # range3 THEN np_transpose(data, reorder) ELSE data
    IN [reorder |-> s.dim_order, flip |-> s.dim_flip, tmatrix |-> s.new_mat,
        data |-> flip_all(transposed, s.dim_flip)]

\* QpData.resample up to the test of the simplified matrix: the simplified
\* transform and the transposed and flipped data
resample_simplify(self, selfgrid, grid) ==
    Eval(LAMBDA s : resample_reorder(raw(self), s),
         simplify_transforms(selfgrid, RatMul(MatInv(grid.affine), selfgrid.affine)))

\* The ROI checks and the cast after the affine transformation
resample_roi_check(self, data, mode) ==
    IF ~self.roi THEN [status |-> "ok", err |-> "", data |-> data]
    ELSE IF (\E idx \in DOMAIN data.val : IsNegative(data.val[idx]))
             \/ (\E idx \in DOMAIN data.val : Above2Pow32(data.val[idx]))
    THEN [status |-> "error", err |-> "ROIs must contain values between 0 and 2**32",
          data |-> data]
    ELSE IF ~(\E idx \in DOMAIN data.val : IsInteger(data.val[idx]))
    THEN [status |-> "error", err |-> "ROIs must contain integers only", data |-> data]
    ELSE [status |-> "ok", err |-> "",
          data |-> [shape |-> data.shape,
                    val |-> [idx \in DOMAIN data.val |-> astype_int32(data.val[idx], mode)]]]

\* NumpyData(data=data, grid=grid, name=self.name + "_resampled", roi=self.roi)
\* as the outcome of resample
resample_result(self, gridref, pre, path, interp, checked) ==
    [op |-> "resample", status |-> checked.status, err |-> checked.err,
     self |-> self, path |-> path,
     reorder |-> pre.reorder, flip |-> pre.flip, tmatrix |-> pre.tmatrix,
     interp |-> interp,
     grid |-> gridref, name |-> self.name \o <<"_resampled">>, roi |-> self.roi,
     data |-> checked.data]

\* QpData.resample(grid, order) on object o with target grid g
Resample(o, g) ==
    /\ o \in DOMAIN objs /\ g \in DOMAIN grids
    /\ LET self == objs[o]
       IN \E pre \in {resample_simplify(self, grids[self.grid], grids[g])} :
          IF is_identity(pre.tmatrix)
          THEN res' = resample_result(self, g, pre, "direct", pre.data,
                          [status |-> "ok", err |-> "", data |-> pre.data])
          ELSE \E order \in Orders :
               \E out \in affine_transform_outputs(pre.data,
                              resample_output_shape(pre.data, grids[g]), order) :
               \E mode \in (IF self.roi THEN CastModes ELSE {"none"}) :
                  res' = resample_result(self, g, pre, "affine", out,
                              resample_roi_check(self, out, mode))
    /\ UNCHANGED <<grids, objs>>

set_roi_then_raise(self, roi) ==
    IF roi /\ self.nvols # 1
    THEN [status |-> "error", err |-> "ROIs must be static (single volume) 3D data",
          self |-> [self EXCEPT !.roi = roi]]
    ELSE [status |-> "ok", err |-> "", self |-> [self EXCEPT !.roi = roi]]

\* QpData.set_roi(roi): the instance after the call, or the TypeError
set_roi(self, roi) ==
    IF roi /\ self.nvols # 1
    THEN [status |-> "error", err |-> "ROIs must be static (single volume) 3D data",
          self |-> self]
    ELSE [status |-> "ok", err |-> "", self |-> [self EXCEPT !.roi = roi]]

SetRoi(o, roi) ==
    /\ o \in DOMAIN objs
    /\ LET r == set_roi(objs[o], roi)
       IN /\ objs' = [objs EXCEPT ![o] = r.self]
          /\ res' = [op |-> "set_roi", status |-> r.status, err |-> r.err,
                     obj |-> o, arg |-> roi]
    /\ UNCHANGED grids

\* QpData.set_2dt(): raises unless the data is 3D static with more than one
\* slice; otherwise turns the third axis into the volume axis and sets the
\* third entry of the shape list of its grid to 1
Set2dt(o) ==
    /\ o \in DOMAIN objs
    /\ LET self == objs[o]
           grid == grids[self.grid]
       IN IF self.nvols # 1 \/ grid.shape[2] = 1
          THEN /\ res' = [op |-> "set_2dt", status |-> "error",
                          err |-> "Can only force to 2D timeseries if data was originally 3D static",
                          obj |-> o]
               /\ UNCHANGED <<grids, objs>>
          ELSE /\ objs' = [objs EXCEPT ![o] = [self EXCEPT !.raw_2dt = TRUE,
                                                           !.nvols = grid.shape[2],
                                                           !.ndim = 4]]
               /\ grids' = [grids EXCEPT ![self.grid].shape[2] = 1]
               /\ res' = [op |-> "set_2dt", status |-> "ok", err |-> "", obj |-> o]

\* grid.get_standard() on grid g
GetStandard(g) ==
    /\ g \in DOMAIN grids
    /\ res' = [op |-> "get_standard", status |-> "ok", err |-> "",
               grid |-> g, value |-> get_standard(grids[g])]
    /\ UNCHANGED <<grids, objs>>

\* grid.get_ras_axes() on grid g
GetRasAxes(g) ==
    /\ g \in DOMAIN grids
    /\ LET r == get_ras_axes(grids[g])
       IN res' = [op |-> "get_ras_axes", status |-> r.status, err |-> r.err,
                  grid |-> g, value |-> r.value]
    /\ UNCHANGED <<grids, objs>>

\* grid.simplify_transforms(mat) on grid g with its own affine as the matrix
SimplifyTransforms(g) ==
    /\ g \in DOMAIN grids
    /\ LET mat == [num |-> grids[g].affine, den |-> 1]
       IN res' = [op |-> "simplify_transforms", status |-> "ok", err |-> "",
                  grid |-> g, mat |-> mat,
                  value |-> simplify_transforms(grids[g], mat)]
    /\ UNCHANGED <<grids, objs>>

(***************************************************************************)
(* Inputs                                                                  *)
(***************************************************************************)
Shapes == [0..2 -> 1..MaxDim]

Perms == {p \in [0..2 -> 0..2] : \A i, j \in 0..2 : p[i] = p[j] => i = j}

\* The affine that maps voxel s of a grid of the given shape to the voxel t
\* with t[p[i]] = s[i], or shape[i]-1-s[i] for the axes i in F
SignedPerm(p, F, shape) ==
    [r \in 0..3 |-> [c \in 0..3 |->
        IF r = 3 THEN (IF c = 3 THEN 1 ELSE 0)
        ELSE LET i == CHOOSE k \in 0..2 : p[k] = r
             IN IF c = i THEN (IF i \in F THEN -1 ELSE 1)
                ELSE IF c = 3 /\ i \in F THEN shape[i] - 1
                ELSE 0]]

\* A 4x4 affine from its three rows
Affine(r0, r1, r2) ==
    [r \in 0..3 |-> [c \in 0..3 |->
        IF r = 0 THEN r0[c+1] ELSE IF r = 1 THEN r1[c+1]
        ELSE IF r = 2 THEN r2[c+1] ELSE (IF c = 3 THEN 1 ELSE 0)]]

\* Oblique and scaled affines
Shear == Affine(<<1, 2, 0, 0>>, <<0, 1, 0, 0>>, <<0, 0, 1, 0>>)

ShearFlip == Affine(<<1, -2, 0, 0>>, <<0, 1, 0, 0>>, <<0, 0, -1, 0>>)

Oblique == Affine(<<3, 2, 0, 1>>, <<4, 1, 0, 0>>, <<0, 0, 1, -2>>)

Scaled == Affine(<<2, 0, 0, 0>>, <<0, 1, 0, 0>>, <<0, 0, 1, 0>>)

ShearTie == Affine(<<1, 1, 0, 0>>, <<0, 1, 0, 0>>, <<0, 0, 1, 0>>)

Shifted == Affine(<<1, 0, 0, 1>>, <<0, 1, 0, 0>>, <<0, 0, 1, 0>>)

Rotated == Affine(<<0, -2, 0, 3>>, <<1, 0, 0, -1>>, <<0, 0, 3, 0>>)

\* The array whose sample at each index is a label unique to that index
LabelArray(shape) ==
    LET B == MaxDim + 1
    IN [shape |-> shape,
        val |-> [idx \in Indices(shape) |->
                    Smp(1 + idx[0] + B*idx[1] + B*B*idx[2]
                        + (IF 3 \in DOMAIN shape THEN B*B*B*idx[3] ELSE 0))]]

WithVols(shape, nvols) ==
    IF nvols = 1 THEN shape
    ELSE [i \in 0..3 |-> IF i < 3 THEN shape[i] ELSE nvols]

\* The kinds of data set: 3D data, a 3D ROI, 4D data
Kinds == {[nvols |-> 1, roi |-> FALSE], [nvols |-> 1, roi |-> TRUE],
          [nvols |-> MaxVols, roi |-> FALSE]}

NewData(name, g, shape, kind) ==
    QpData(<<name>>, g, kind.nvols, kind.roi, LabelArray(WithVols(shape, kind.nvols)))

(***************************************************************************)
(* Specification of the data objects: two data sets sharing one grid       *)
(***************************************************************************)
Init ==
    /\ \E shape \in Shapes : \E k0, k1 \in Kinds :
          /\ grids = [g \in {0} |-> DataGrid(shape, identity4)]
          /\ objs = [o \in 0..1 |-> NewData(IF o = 0 THEN "d0" ELSE "d1", 0, shape,
                                            IF o = 0 THEN k0 ELSE k1)]
    /\ res = NoRes

Next ==
    \/ \E o \in DOMAIN objs : \E roi \in BOOLEAN : SetRoi(o, roi)
    \/ \E o \in DOMAIN objs : Set2dt(o)
    \/ \E g \in DOMAIN grids : GetStandard(g)
    \/ \E g \in DOMAIN grids : GetRasAxes(g)

Spec == Init /\ [][Next]_vars

(***************************************************************************)
(* Specification of resampling: one data set and a target grid             *)
(***************************************************************************)
SrcAffines == {identity4, Rotated}

\* Source-to-target voxel transforms: the axis permutations that flip the
\* axes in F, with the matching translation, and transforms that need
\* interpolation
VoxelMaps(shape, F) ==
    {SignedPerm(p, F, shape) : p \in Perms}
        \cup (IF F = {} THEN {Shear, Scaled, Shifted} ELSE {})

TargetShapes(shape, S) ==
    {[r \in 0..2 |-> shape[ArgMax([c \in 0..2 |-> Abs(S[r][c])], 3)]],
     [r \in 0..2 |-> IF r = 0 THEN MaxDim ELSE 1]}

InitResample ==
    /\ \E F \in SUBSET (0..2) : \E shape \in Shapes :
       \E A \in SrcAffines : \E kind \in Kinds :
       \E S \in VoxelMaps(shape, F) : \E tshape \in TargetShapes(shape, S) :
          /\ grids = [g \in 0..1 |->
                        IF g = 0 THEN DataGrid(shape, A)
                        ELSE DataGrid(tshape, MatMul(A, MatInv(S).num))]
          /\ objs = [o \in {0} |-> NewData("d0", 0, shape, kind)]
    /\ res = NoRes

NextResample ==
    res.op = "none" /\ \E o \in DOMAIN objs : \E g \in DOMAIN grids : Resample(o, g)

SpecResample == InitResample /\ [][NextResample]_vars

(***************************************************************************)
(* Specification of the grid operations: one grid                          *)
(***************************************************************************)
Spacings == {[i \in 0..2 |-> 1], [i \in 0..2 |-> i + 1]}

GridOrigins == {[i \in 0..2 |-> 0], [i \in 0..2 |-> 2 * i - 1]}

\* Axis-aligned affines: column i points along world axis p[i], with a
\* sign, a spacing and an origin
AlignedAffines ==
    {[r \in 0..3 |-> [c \in 0..3 |->
        IF r = 3 THEN (IF c = 3 THEN 1 ELSE 0)
        ELSE IF c = 3 THEN org[r]
        ELSE IF p[c] = r THEN (IF c \in F THEN -sp[c] ELSE sp[c])
        ELSE 0]] :
        p \in Perms, F \in SUBSET (0..2), sp \in Spacings, org \in GridOrigins}

GridAffines == AlignedAffines \cup {Shear, ShearFlip, ShearTie, Oblique, Scaled, Rotated}

InitGrid ==
    /\ \E shape \in Shapes : \E A \in GridAffines :
          grids = [g \in {0} |-> DataGrid(shape, A)]
    /\ objs = [o \in {} |-> NoRes]
    /\ res = NoRes

NextGrid ==
    \/ res.op = "none" /\ \E g \in DOMAIN grids : GetStandard(g)
    \/ res.op = "none" /\ \E g \in DOMAIN grids : GetRasAxes(g)
    \/ res.op = "none" /\ \E g \in DOMAIN grids : SimplifyTransforms(g)

SpecGrid == InitGrid /\ [][NextGrid]_vars

(***************************************************************************)
(* Co-ordinates: Python numbers and the co-ordinate transforms of DataGrid *)
(***************************************************************************)
RECURSIVE GCD(_, _)
GCD(a, b) == IF b = 0 THEN a ELSE GCD(b, a % b)

\* The Python number n/d in lowest terms: an int (t = "int", d = 1) or a
\* float (t = "float")
Reduced(nd, t) ==
    LET g == GCD(Abs(nd[1]), Abs(nd[2]))
        s == IF nd[2] < 0 THEN -1 ELSE 1
    IN [n |-> s * (nd[1] \div g), d |-> s * (nd[2] \div g), t |-> t]

PyNum(n, d, t) == Eval(LAMBDA nd : Reduced(nd, t), <<n, d>>)

PyInt(n) == PyNum(n, 1, "int")

PyFloat(n, d) == PyNum(n, d, "float")

\* a + b, a - b, a * b in the given result type
NumAdd(a, b, t) ==
    Eval(LAMBDA p : Reduced(<<p[1].n * p[2].d + p[2].n * p[1].d, p[1].d * p[2].d>>, t),
         <<a, b>>)

NumSub(a, b, t) ==
    Eval(LAMBDA p : Reduced(<<p[1].n * p[2].d - p[2].n * p[1].d, p[1].d * p[2].d>>, t),
         <<a, b>>)

NumMul(a, b, t) ==
    Eval(LAMBDA p : Reduced(<<p[1].n * p[2].n, p[1].d * p[2].d>>, t), <<a, b>>)

\* Python ==: equality of the values, whatever the types
NumEq(a, b) == a.n * b.d = b.n * a.d

\* the dtype of np.array(coords[:3]): integer only when every entry is
ArrayDtype(coords) ==
    IF \A i \in 0..2 : coords[i].t = "int" THEN "int" ELSE "float"

\* np.array(x, dtype=dtype): conversion to an integer dtype truncates
\* towards zero
CastNum(x, dtype) ==
    IF dtype = "int"
    THEN PyInt(IF x.n >= 0 THEN x.n \div x.d ELSE -((-x.n) \div x.d))
    ELSE PyFloat(x.n, x.d)

\* int(math.floor(v + 0.5))
RoundHalfUp(v) == Eval(LAMBDA x : (2 * x.n + x.d) \div (2 * x.d), v)

\* DataGrid.__init__ for an affine given as a numpy array of dtype int
\* (den = 1) or float: entry [r][c] of the affine is affine[r][c] / den
NumpyGrid(shape, affine, den, dtype) ==
    [shape |-> shape, affine |-> affine, den |-> den, dtype |-> dtype]

\* The grids built with DataGrid(shape, affine) hold whole numbers as floats
AffineDen(grid) == IF "den" \in DOMAIN grid THEN grid.den ELSE 1

AffineDtype(grid) == IF "dtype" \in DOMAIN grid THEN grid.dtype ELSE "float"

\* self.transform[r][c], self.origin[r] and self.inv_transform[r][c]
TransformAt(grid, r, c) == PyNum(grid.affine[r][c], AffineDen(grid), AffineDtype(grid))

OriginAt(grid, r) == PyNum(grid.affine[r][3], AffineDen(grid), AffineDtype(grid))

InvTransformAt(grid, r, c) ==
    PyFloat(Adj3(grid.affine)[r][c] * AffineDen(grid), Det3(grid.affine))

\* np.dot(matrix, vec)[r] for a 3x3 matrix given by its entries
Dot3(M(_, _), vec, r, t) ==
    NumAdd(NumAdd(NumMul(M(r, 0), vec[0], t), NumMul(M(r, 1), vec[1], t), t),
           NumMul(M(r, 2), vec[2], t), t)

\* DataGrid.grid_to_world(coords, direction) for a list of 3 or 4 numbers
grid_to_world_list(self, coords, direction) ==
    LET t == IF AffineDtype(self) = "int" /\ ArrayDtype(coords) = "int"
             THEN "int" ELSE "float"
        world_coords == [r \in 0..2 |->
            LET w == Dot3(LAMBDA i, j : TransformAt(self, i, j), coords, r, t)
            IN IF direction THEN w
               ELSE NumAdd(w, CastNum(OriginAt(self, r), t), t)]
    IN [i \in DOMAIN coords |-> IF i < 3 THEN world_coords[i] ELSE coords[3]]

world_to_grid_int_origin(self, coords, direction) ==
    LET vec == [r \in 0..2 |->
            IF direction THEN coords[r]
            ELSE NumSub(coords[r], CastNum(OriginAt(self, r), "int"), "float")]
        grid_coords == [r \in 0..2 |->
            Dot3(LAMBDA i, j : InvTransformAt(self, i, j), vec, r, "float")]
    IN [i \in DOMAIN coords |-> IF i < 3 THEN grid_coords[i] ELSE coords[3]]

\* DataGrid.world_to_grid(coords, direction): the origin is converted to
\* the dtype of the co-ordinate array before it is subtracted
world_to_grid(self, coords, direction) ==
    LET t == ArrayDtype(coords)
        vec == [r \in 0..2 |->
            IF direction THEN coords[r]
            ELSE NumSub(coords[r], CastNum(OriginAt(self, r), t), t)]
        grid_coords == [r \in 0..2 |->
            Dot3(LAMBDA i, j : InvTransformAt(self, i, j), vec, r, "float")]
    IN [i \in DOMAIN coords |-> IF i < 3 THEN grid_coords[i] ELSE coords[3]]

grid_to_grid_swapped(self, coord, from_grid, to_grid, direction) ==
    IF from_grid # None /\ to_grid = None
    THEN [status |-> "ok", err |-> "",
          value |-> Eval(LAMBDA world : world_to_grid(from_grid[1], world, direction),
                         grid_to_world_list(self, coord, direction))]
    ELSE IF from_grid = None /\ to_grid # None
    THEN [status |-> "ok", err |-> "",
          value |-> Eval(LAMBDA world : world_to_grid(self, world, direction),
                         grid_to_world_list(to_grid[1], coord, direction))]
    ELSE [status |-> "error", value |-> None,
          err |-> "Exactly one of from_grid and to_grid must be specified"]

\* DataGrid.grid_to_grid(coord, from_grid, to_grid, direction): from_grid and
\* to_grid are None or Some(grid)
grid_to_grid(self, coord, from_grid, to_grid, direction) ==
    IF from_grid # None /\ to_grid = None
    THEN [status |-> "ok", err |-> "",
          value |-> Eval(LAMBDA world : world_to_grid(self, world, direction),
                         grid_to_world_list(from_grid[1], coord, direction))]
    ELSE IF from_grid = None /\ to_grid # None
    THEN [status |-> "ok", err |-> "",
          value |-> Eval(LAMBDA world : world_to_grid(to_grid[1], world, direction),
                         grid_to_world_list(self, coord, direction))]
    ELSE [status |-> "error", value |-> None,
          err |-> "Exactly one of from_grid and to_grid must be specified"]

(***************************************************************************)
(* QpData: volume, value and timeseries                                    *)
(***************************************************************************)
\* array[..., i] along an axis of length n: the position read, with
\* negative indices counted from the end, or -1 for an IndexError
np_index(i, n) ==
    IF i >= n \/ i < -n THEN -1 ELSE IF i < 0 THEN i + n ELSE i

\* rawdata[:, :, :, k] for 0 <= k < rawdata.shape[3]
np_take_volume(rawdata, k) ==
    LET shape == [i \in 0..2 |-> rawdata.shape[i]]
    IN [shape |-> shape,
        val |-> [idx \in Indices(shape) |->
                    rawdata.val[[i \in 0..3 |-> IF i < 3 THEN idx[i] ELSE k]]]]

\* QpData.volume(vol): rawdata[:, :, :, min(vol, self.nvols-1)] for 4D data
volume(self, vol) ==
    LET rawdata == raw(self)
    IN IF self.ndim = 4
       THEN LET k == np_index(IF vol < self.nvols - 1 THEN vol ELSE self.nvols - 1,
                              rawdata.shape[3])
            IN IF k = -1
               THEN [status |-> "error", err |-> "IndexError", value |-> None]
               ELSE [status |-> "ok", err |-> "", value |-> np_take_volume(rawdata, k)]
       ELSE [status |-> "ok", err |-> "", value |-> rawdata]

\* the grid of value() and timeseries() when none is given
default_grid == DataGrid([i \in 0..2 |-> 1], identity4)

\* data_pos = [int(math.floor(v+0.5)) for v in
\*             self.grid.grid_to_grid(pos[:3], from_grid=grid)]
data_pos_of(selfgrid, pos, grid) ==
    LET from_grid == IF grid = None THEN Some(default_grid) ELSE grid
    IN Eval(LAMBDA coords : [i \in 0..2 |-> RoundHalfUp(coords[i])],
            grid_to_grid(selfgrid, [i \in 0..2 |-> pos[i]], from_grid, None, FALSE).value)

\* rawdata[tuple(data_pos)] with IndexError turned into 0, for data_pos >= 0
value_at(rawdata, data_pos) ==
    IF \A i \in 0..2 : data_pos[i] < rawdata.shape[i]
    THEN rawdata.val[data_pos]
    ELSE Smp(0)

\* QpData.value after data_pos is known: pos[3] and volume() are evaluated
\* outside the try block
value_at_pos(self, pos, data_pos) ==
    IF \E i \in 0..2 : data_pos[i] < 0
    THEN [status |-> "ok", err |-> "", value |-> Smp(0)]
    ELSE IF 3 \notin DOMAIN pos
    THEN [status |-> "error", err |-> "IndexError", value |-> None]
    ELSE LET v == volume(self, pos[3].n)
         IN IF v.status = "error" THEN v
            ELSE [status |-> "ok", err |-> "", value |-> value_at(v.value, data_pos)]

\* QpData.value(pos, grid): pos is a list of 3 or 4 numbers, grid is None
\* or Some(grid)
value(self, selfgrid, pos, grid) ==
    Eval(LAMBDA data_pos : value_at_pos(self, pos, data_pos),
         data_pos_of(selfgrid, pos, grid))

\* QpData.timeseries for 4D data after data_pos is known
timeseries_at_pos(self, data_pos) ==
    LET rawdata == raw(self)
    IN IF \E i \in 0..2 : data_pos[i] < 0
       THEN [status |-> "ok", err |-> "", value |-> <<>>]
       ELSE IF \E i \in 0..2 : data_pos[i] >= rawdata.shape[i]
       THEN [status |-> "ok", err |-> "", value |-> <<>>]
       ELSE [status |-> "ok", err |-> "",
             value |-> [k \in 1..rawdata.shape[3] |->
                 rawdata.val[[i \in 0..3 |-> IF i < 3 THEN data_pos[i] ELSE k - 1]]]]

\* QpData.timeseries(pos, grid): a list, as a sequence
timeseries(self, selfgrid, pos, grid) ==
    IF self.nvols = 1
    THEN LET v == value(self, selfgrid, pos, grid)
         IN IF v.status = "error" THEN v
            ELSE [status |-> "ok", err |-> "", value |-> <<v.value>>]
    ELSE Eval(LAMBDA data_pos : timeseries_at_pos(self, data_pos),
              data_pos_of(selfgrid, pos, grid))

\* An optional grid argument: reference -1 stands for None
NoGrid == -1

OptGrid(ref) == IF ref = NoGrid THEN None ELSE Some(grids[ref])

\* grid.grid_to_grid(coord, from_grid, to_grid, direction) on grid g
GridToGrid(g, coord, f, t, direction) ==
    /\ g \in DOMAIN grids
    /\ \E r \in {grid_to_grid(grids[g], coord, OptGrid(f), OptGrid(t), direction)} :
          res' = [op |-> "grid_to_grid", status |-> r.status, err |-> r.err,
                  grid |-> g, coord |-> coord, from_grid |-> f, to_grid |-> t,
                  direction |-> direction, value |-> r.value]
    /\ UNCHANGED <<grids, objs>>

\* data.volume(vol) on data set o
Volume(o, vol) ==
    /\ o \in DOMAIN objs
    /\ \E r \in {volume(objs[o], vol)} :
          res' = [op |-> "volume", status |-> r.status, err |-> r.err,
                  obj |-> o, vol |-> vol, value |-> r.value]
    /\ UNCHANGED <<grids, objs>>

\* data.value(pos, grid) on data set o
Value(o, pos, g) ==
    /\ o \in DOMAIN objs
    /\ \E r \in {value(objs[o], grids[objs[o].grid], pos, OptGrid(g))} :
          res' = [op |-> "value", status |-> r.status, err |-> r.err,
                  obj |-> o, pos |-> pos, grid |-> g, value |-> r.value]
    /\ UNCHANGED <<grids, objs>>

\* data.timeseries(pos, grid) on data set o
Timeseries(o, pos, g) ==
    /\ o \in DOMAIN objs
    /\ \E r \in {timeseries(objs[o], grids[objs[o].grid], pos, OptGrid(g))} :
          res' = [op |-> "timeseries", status |-> r.status, err |-> r.err,
                  obj |-> o, pos |-> pos, grid |-> g, value |-> r.value]
    /\ UNCHANGED <<grids, objs>>

(***************************************************************************)
(* Specification of the lookups: a data set on its grid, and a second grid *)
(* that positions are given in                                             *)
(***************************************************************************)
\* Identity transform with the origin (1/2, -1/2, 0)
HalfOrigin == Affine(<<2, 0, 0, 1>>, <<0, 2, 0, -1>>, <<0, 0, 2, 0>>)

LookupShapes == {[i \in 0..2 |-> MaxDim], [i \in 0..2 |-> IF i = 1 THEN MaxDim ELSE 1]}

DataGrids(shape) ==
    {DataGrid(shape, identity4),
     NumpyGrid(shape, Shifted, 1, "int"),
     NumpyGrid(shape, HalfOrigin, 2, "float"),
     NumpyGrid(shape, Rotated, 1, "float")}

PositionGrids ==
    {NumpyGrid([i \in 0..2 |-> 1], identity4, 1, "int"),
     NumpyGrid([i \in 0..2 |-> 1], HalfOrigin, 2, "float")}

\* Co-ordinate values: whole numbers as Python ints, and floats
IntCoords == {PyInt(-1), PyInt(0), PyInt(1)}

FloatCoords == {PyFloat(-1, 2), PyFloat(3, 2)}

\* Volume indices, from below -nvols to above nvols - 1
VolIndices == (0 - MaxVols - 1)..MaxVols

\* Positions with 3 entries, and with a volume index as the fourth
Positions3 == [0..2 -> IntCoords] \cup [0..2 -> FloatCoords]

WithVolIndex(p, v) == [i \in 0..3 |-> IF i < 3 THEN p[i] ELSE PyInt(v)]

Positions4 == {WithVolIndex(p, v) : p \in Positions3, v \in VolIndices}

\* The data sets looked up: 3D and 4D data
LookupKinds == {k \in Kinds : ~k.roi}

InitLookup ==
    /\ \E shape \in LookupShapes : \E kind \in LookupKinds :
       \E G \in DataGrids(shape) : \E P \in PositionGrids :
          /\ grids = [g \in 0..1 |-> IF g = 0 THEN G ELSE P]
          /\ objs = [o \in {0} |-> NewData("d0", 0, shape, kind)]
    /\ res = NoRes

NextLookup ==
    \/ res.op = "none" /\ \E g \in DOMAIN grids :
           \E c \in Positions3 \cup {WithVolIndex(p, MaxVols) : p \in [0..2 -> FloatCoords]} :
           \E f, t \in DOMAIN grids \cup {NoGrid} : \E direction \in BOOLEAN :
               GridToGrid(g, c, f, t, direction)
    \/ res.op = "none" /\ \E o \in DOMAIN objs : \E vol \in VolIndices : Volume(o, vol)
    \/ res.op = "none" /\ \E o \in DOMAIN objs : \E pos \in Positions3 \cup Positions4 :
           \E g \in DOMAIN grids \cup {NoGrid} : Value(o, pos, g)
    \/ res.op = "none" /\ \E o \in DOMAIN objs : \E pos \in Positions3 \cup Positions4 :
           \E g \in DOMAIN grids \cup {NoGrid} : Timeseries(o, pos, g)

SpecLookup == InitLookup /\ [][NextLookup]_vars

(***************************************************************************)
(* QpData: the regions of an ROI                                           *)
(***************************************************************************)
\* a < b for sample values
NumLess(a, b) ==
    \/ a.hi < b.hi
    \/ a.hi = b.hi /\ (a.lo < b.lo \/ (a.lo = b.lo /\ a.half < b.half))

\* v.astype(np.int): truncation towards zero
astype_int(v) ==
    IF v.half = 0 THEN v
    ELSE IF v.hi >= 0 THEN Num(v.hi, v.lo, 0)
    ELSE IF v.lo = LimbBase - 1 THEN Num(v.hi + 1, 0, 0)
    ELSE Num(v.hi, v.lo + 1, 0)

\* The elements of a set of sample values in ascending order
RECURSIVE sorted(_)
sorted(S) ==
    IF S = {} THEN <<>>
    ELSE LET m == CHOOSE x \in S : \A y \in S : y = x \/ NumLess(x, y)
         IN <<m>> \o sorted(S \ {m})

\* np.unique(array): the distinct values, sorted
np_unique(values) == sorted(values)

regions_keep_zero(self) ==
    IF ~self.roi
    THEN [status |-> "error", err |-> "Only ROIs have distinct regions",
          value |-> None, self |-> self]
    ELSE IF self._regions = None
    THEN LET unique == np_unique({astype_int(raw(self).val[idx]) :
                                     idx \in DOMAIN raw(self).val})
             new == SelectSeq(unique, LAMBDA r : ~NumLess(r, Smp(0)))
         IN [status |-> "ok", err |-> "", value |-> new,
             self |-> [self EXCEPT !._regions = Some(new)]]
    ELSE [status |-> "ok", err |-> "", value |-> self._regions[1], self |-> self]

\* QpData.regions(): the list of regions and the instance after the call,
\* or the TypeError
regions(self) ==
    IF ~self.roi
    THEN [status |-> "error", err |-> "Only ROIs have distinct regions",
          value |-> None, self |-> self]
    ELSE IF self._regions = None
    THEN LET unique == np_unique({astype_int(raw(self).val[idx]) :
                                     idx \in DOMAIN raw(self).val})
             new == SelectSeq(unique, LAMBDA r : NumLess(Smp(0), r))
         IN [status |-> "ok", err |-> "", value |-> new,
             self |-> [self EXCEPT !._regions = Some(new)]]
    ELSE [status |-> "ok", err |-> "", value |-> self._regions[1], self |-> self]

\* data.regions() on data set o; cached tells whether the list had been
\* computed by an earlier call
Regions(o) ==
    /\ o \in DOMAIN objs
    /\ \E r \in {regions(objs[o])} :
          /\ objs' = [objs EXCEPT ![o] = r.self]
          /\ res' = [op |-> "regions", status |-> r.status, err |-> r.err,
                     obj |-> o, cached |-> objs[o]._regions # None,
                     value |-> r.value]
    /\ UNCHANGED grids

\* data.raw()[idx] = v by a user of the data: raw() returns the array
\* itself, which is written in place
WriteRaw(o, idx, v) ==
    /\ o \in DOMAIN objs
    /\ idx \in DOMAIN raw(objs[o]).val
    /\ raw(objs[o]).val[idx] # v
    /\ objs' = [objs EXCEPT ![o].rawdata.val[idx] = v]
    /\ res' = [op |-> "write_raw", status |-> "ok", err |-> "",
               obj |-> o, idx |-> idx, v |-> v]
    /\ UNCHANGED grids

(***************************************************************************)
(* Specification of the regions: one 3D data set whose array is written    *)
(***************************************************************************)
\* Sample values of an ROI array: -1, 0, 1, 2, and 1.5
LabelValues == {Num(-1, LimbBase - 1, 0), Smp(0), Smp(1), Smp(2), Num(0, 1, 1)}

RoiShape == [i \in 0..2 |-> IF i = 0 THEN MaxDim ELSE 1]

InitRoi ==
    /\ grids = [g \in {0} |-> DataGrid(RoiShape, identity4)]
    /\ \E roi \in BOOLEAN : \E val \in [Indices(RoiShape) -> LabelValues] :
          objs = [o \in {0} |->
                    QpData(<<"d0">>, 0, 1, roi, [shape |-> RoiShape, val |-> val])]
    /\ res = NoRes

NextRoi ==
    \/ \E o \in DOMAIN objs : Regions(o)
    \/ \E o \in DOMAIN objs : \E idx \in Indices(RoiShape) : \E v \in LabelValues :
           WriteRaw(o, idx, v)

SpecRoi == InitRoi /\ [][NextRoi]_vars

(***************************************************************************)
(* QpData: the bounding box of an ROI                                      *)
(***************************************************************************)
\* slice(None) and slice(start, stop)
slice_all == [start |-> None, stop |-> None, step |-> None]

slice_range(start, stop) == [start |-> Some(start), stop |-> Some(stop), step |-> None]

\* np.where(np.any(array, axis=other axes))[0]: the indices along axis dim
\* of the planes that hold a nonzero sample
np_where_any(array, dim) ==
    {idx[dim] : idx \in {i \in DOMAIN array.val : array.val[i] # Smp(0)}}

SetMin(S) == CHOOSE x \in S : \A y \in S : x <= y

SetMax(S) == CHOOSE x \in S : \A y \in S : y <= x

get_bounding_box_open_end(self, nd) ==
    IF ~self.roi
    THEN [status |-> "error", err |-> "get_bounding_box() called on non-ROI data",
          value |-> None]
    ELSE IF \E dim \in 0..2 : dim < nd /\ np_where_any(raw(self), dim) = {}
    THEN [status |-> "error", err |-> "IndexError", value |-> None]
    ELSE [status |-> "ok", err |-> "",
          value |-> [dim \in 0..(nd - 1) |->
              IF dim < 3
              THEN slice_range(SetMin(np_where_any(raw(self), dim)),
                               SetMax(np_where_any(raw(self), dim)))
              ELSE slice_all]]

\* QpData.get_bounding_box(ndim): the list of ndim slices; indexing the
\* empty result of np.where with [0, -1] raises IndexError
get_bounding_box(self, nd) ==
    IF ~self.roi
    THEN [status |-> "error", err |-> "get_bounding_box() called on non-ROI data",
          value |-> None]
    ELSE IF \E dim \in 0..2 : dim < nd /\ np_where_any(raw(self), dim) = {}
    THEN [status |-> "error", err |-> "IndexError", value |-> None]
    ELSE [status |-> "ok", err |-> "",
          value |-> [dim \in 0..(nd - 1) |->
              IF dim < 3
              THEN slice_range(SetMin(np_where_any(raw(self), dim)),
                               SetMax(np_where_any(raw(self), dim)) + 1)
              ELSE slice_all]]

\* roi.get_bounding_box(ndim) on data set o
GetBoundingBox(o, nd) ==
    /\ o \in DOMAIN objs
    /\ \E r \in {get_bounding_box(objs[o], nd)} :
          res' = [op |-> "get_bounding_box", status |-> r.status, err |-> r.err,
                  obj |-> o, ndim |-> nd, value |-> r.value]
    /\ UNCHANGED <<grids, objs>>

(***************************************************************************)
(* Specification of the bounding box: one 3D data set                      *)
(***************************************************************************)
BoxShape == [i \in 0..2 |-> IF i = 0 THEN MaxDim ELSE 2]

\* The numbers of dimensions asked for
BoxDims == 1..4

InitBox ==
    /\ grids = [g \in {0} |-> DataGrid(BoxShape, identity4)]
    /\ \E roi \in BOOLEAN : \E label \in {Smp(1), Num(-1, LimbBase - 1, 0)} :
       \E voxels \in SUBSET Indices(BoxShape) :
          objs = [o \in {0} |->
                    QpData(<<"d0">>, 0, 1, roi,
                           [shape |-> BoxShape,
                            val |-> [idx \in Indices(BoxShape) |->
                                        IF idx \in voxels THEN label ELSE Smp(0)]])]
    /\ res = NoRes

NextBox ==
    res.op = "none" /\ \E o \in DOMAIN objs : \E nd \in BoxDims : GetBoundingBox(o, nd)

SpecBox == InitBox /\ [][NextBox]_vars

(***************************************************************************)
(* QpData: mask                                                            *)
(***************************************************************************)
\* The outcomes of QpData.resample after the simplification pre: the
\* status and the data of the resampled data set
resample_outcomes(self, pre, grid) ==
    IF is_identity(pre.tmatrix)
    THEN {[status |-> "ok", err |-> "", data |-> pre.data]}
    ELSE UNION {{resample_roi_check(self, out, mode) :
                    out \in affine_transform_outputs(pre.data,
                                resample_output_shape(pre.data, grid), order)} :
                order \in Orders, mode \in (IF self.roi THEN CastModes ELSE {"none"})}

\* The position of an index in C (row-major) order
c_order(shape, idx) ==
    LET n == Cardinality(DOMAIN shape)
        stride(a) == IF a = n - 1 THEN 1
                     ELSE IF a = n - 2 THEN shape[n - 1]
                     ELSE IF a = n - 3 THEN shape[n - 1] * shape[n - 2]
                     ELSE shape[n - 1] * shape[n - 2] * shape[n - 3]
    IN IF n = 4 THEN idx[0]*stride(0) + idx[1]*stride(1) + idx[2]*stride(2) + idx[3]
       ELSE idx[0]*stride(0) + idx[1]*stride(1) + idx[2]

\* The k-th index (from 0) of a set of indices in C order
nth_index(shape, sel, k) ==
    CHOOSE idx \in sel :
        Cardinality({j \in sel : c_order(shape, j) < c_order(shape, idx)}) = k

\* data.flatten(): the 1D array of all samples in C order
np_flatten(data) ==
    LET n == Cardinality(DOMAIN data.val)
    IN [shape |-> [a \in {0} |-> n],
        val |-> [i \in [{0} -> 0..(n - 1)] |->
                    data.val[nth_index(data.shape, DOMAIN data.val, i[0])]]]

\* The first three entries of an index
spatial(idx) == [a \in 0..2 |-> idx[a]]

\* data[mask] for a boolean array over the three spatial axes: the samples
\* of the selected voxels in C order, one row per voxel for 4D data
np_select(data, mask) ==
    LET sel == {idx \in DOMAIN mask.val : mask.val[idx]}
        n == Cardinality(sel)
    IN IF ndim(data) = 4
       THEN [shape |-> [a \in 0..1 |-> IF a = 0 THEN n ELSE data.shape[3]],
             val |-> [i \in Indices([a \in 0..1 |-> IF a = 0 THEN n ELSE data.shape[3]]) |->
                 data.val[[a \in 0..3 |->
                     IF a < 3 THEN nth_index(mask.shape, sel, i[0])[a] ELSE i[1]]]]]
       ELSE [shape |-> [a \in {0} |-> n],
             val |-> [i \in [{0} -> 0..(n - 1)] |->
                         data.val[nth_index(mask.shape, sel, i[0])]]]

\* masked = np.zeros(data.shape); masked[mask] = data[mask]
np_masked(data, mask) ==
    [shape |-> data.shape,
     val |-> [idx \in DOMAIN data.val |->
                 IF mask.val[spatial(idx)] THEN data.val[idx] ELSE Smp(0)]]

\* np.ones(data.shape[:3], dtype=np.int)
np_ones3(data) ==
    [shape |-> spatial(data.shape),
     val |-> [idx \in Indices(spatial(data.shape)) |-> Smp(1)]]

\* mask = roi.raw() > 0, or roi.raw() == region; np.logical_not if invert
roi_mask(roidata, region, invert) ==
    [shape |-> roidata.shape,
     val |-> [idx \in DOMAIN roidata.val |->
                 LET m == IF region = None THEN NumLess(Smp(0), roidata.val[idx])
                          ELSE roidata.val[idx] = region[1]
                 IN IF invert THEN ~m ELSE m]]

\* the value returned for the list ret: the tuple, or its only element
mask_return(ret) ==
    [status |-> "ok", err |-> "", value |-> IF Len(ret) > 1 THEN ret ELSE ret[1]]

mask_with_keep_inverted(data, roidata, region, invert, output_flat, output_mask) ==
    LET mask == roi_mask(roidata, region, FALSE)
    IN IF mask.shape # spatial(data.shape)
       THEN [status |-> "error", err |-> "IndexError", value |-> None]
       ELSE mask_return(
                <<IF output_flat THEN np_select(data, mask) ELSE np_masked(data, mask)>>
                \o (IF output_mask THEN <<mask>> ELSE <<>>))

\* QpData.mask once the data and the resampled ROI array are known; a
\* boolean index of another shape than the data raises IndexError
mask_with(data, roidata, region, invert, output_flat, output_mask) ==
    LET mask == roi_mask(roidata, region, invert)
    IN IF mask.shape # spatial(data.shape)
       THEN [status |-> "error", err |-> "IndexError", value |-> None]
       ELSE mask_return(
                <<IF output_flat THEN np_select(data, mask) ELSE np_masked(data, mask)>>
                \o (IF output_mask THEN <<mask>> ELSE <<>>))

\* QpData.mask with roi None
mask_all(data, output_flat, output_mask) ==
    mask_return(<<IF output_flat THEN np_flatten(data) ELSE data>>
                \o (IF output_mask THEN <<np_ones3(data)>> ELSE <<>>))

\* the data masked: self.volume(vol), or self.raw() when vol is None
mask_data(self, vol) ==
    IF vol = None THEN [status |-> "ok", err |-> "", value |-> raw(self)]
    ELSE volume(self, vol[1])

\* A reference to no data set (roi=None)
NoData == -1

\* data.mask(roi, region, vol, invert, output_flat, output_mask) on data
\* set o with ROI r
Mask(o, r, region, vol, invert, output_flat, output_mask) ==
    /\ o \in DOMAIN objs
    /\ \E d \in {mask_data(objs[o], vol)} :
       LET call == [op |-> "mask", obj |-> o, roi |-> r, region |-> region,
                    vol |-> vol, invert |-> invert, output_flat |-> output_flat,
                    output_mask |-> output_mask]
           result(x) == [k \in DOMAIN call \cup {"status", "err", "value"} |->
                            IF k \in DOMAIN call THEN call[k] ELSE x[k]]
       IN IF d.status = "error" THEN res' = result(d)
          ELSE IF r = NoData
          THEN res' = result(mask_all(d.value, output_flat, output_mask))
          ELSE /\ r \in DOMAIN objs
               /\ \E pre \in {resample_simplify(objs[r], grids[objs[r].grid],
                                                grids[objs[o].grid])} :
                  \E rs \in resample_outcomes(objs[r], pre, grids[objs[o].grid]) :
                     IF rs.status = "error"
                     THEN res' = result([status |-> "error", err |-> rs.err,
                                         value |-> None])
                     ELSE res' = result(mask_with(d.value, rs.data, region, invert,
                                                  output_flat, output_mask))
    /\ UNCHANGED <<grids, objs>>

(***************************************************************************)
(* Specification of masking: a data set and an ROI                         *)
(***************************************************************************)
MaskShape == [i \in 0..2 |-> IF i = 0 THEN MaxDim ELSE IF i = 1 THEN 2 ELSE 1]

\* The grid of the ROI: the grid of the data, a grid equal to it, the same
\* voxels with axis 0 reversed, and a sheared grid
RoiGrids ==
    {DataGrid(MaskShape, Rotated),
     DataGrid(MaskShape, MatMul(Rotated, SignedPerm(range3, {0}, MaskShape))),
     DataGrid(MaskShape, MatMul(Rotated, Shear))}

InitMask ==
    /\ \E kind \in LookupKinds : \E G \in RoiGrids : \E r \in 0..1 :
       \E val \in [Indices(MaskShape) -> {Smp(0), Smp(1), Smp(2)}] :
          /\ G = DataGrid(MaskShape, MatMul(Rotated, Shear)) =>
                 r = 1 /\ \A idx \in Indices(MaskShape) : val[idx] = Smp(1)
          /\ r = 0 => G = DataGrid(MaskShape, Rotated)
          /\ grids = [g \in 0..1 |-> IF g = 0 THEN DataGrid(MaskShape, Rotated) ELSE G]
          /\ objs = [o \in 0..1 |->
                IF o = 0 THEN NewData("d0", 0, MaskShape, kind)
                ELSE QpData(<<"roi">>, r, 1, TRUE, [shape |-> MaskShape, val |-> val])]
    /\ res = NoRes

NextMask ==
    res.op = "none" /\
        \E r \in {1, NoData} : \E region \in {None, Some(Smp(2))} :
        \E vol \in {None, Some(MaxVols - 1)} :
        \E invert, output_flat, output_mask \in BOOLEAN :
            /\ r = NoData => region = None /\ ~invert
            /\ Mask(0, r, region, vol, invert, output_flat, output_mask)

SpecMask == InitMask /\ [][NextMask]_vars

(***************************************************************************)
(* OrthoSlice and QpData.slice_data                                        *)
(***************************************************************************)
\* a / b, -a and |a| for Python numbers (floats)
NumDiv(a, b) ==
    Eval(LAMBDA p : Reduced(<<p[1].n * p[2].d, p[1].d * p[2].n>>, "float"), <<a, b>>)

NumNeg(a) == Eval(LAMBDA x : [n |-> 0 - x.n, d |-> x.d, t |-> x.t], a)

NumAbs(a) == Eval(LAMBDA x : [n |-> Abs(x.n), d |-> x.d, t |-> x.t], a)

\* a < b for Python numbers
NumLt(a, b) == a.n * b.d < b.n * a.d

\* np.argmax(np.absolute(vec)) for a vector of 3 numbers
NumArgMaxAbs(vec) ==
    CHOOSE i \in 0..2 :
        /\ \A j \in 0..2 : ~NumLt(NumAbs(vec[i]), NumAbs(vec[j]))
        /\ \A j \in 0..2 : j < i => NumLt(NumAbs(vec[j]), NumAbs(vec[i]))

\* The two axes of the grid that an OrthoSlice along zaxis keeps, in order
kept_axes(zaxis) ==
    [col \in 0..1 |-> IF col = 0 THEN (IF zaxis = 0 THEN 1 ELSE 0)
                      ELSE (IF zaxis = 2 THEN 1 ELSE 2)]

OrthoSlice_at_origin(grid, zaxis, pos) ==
    LET kept == kept_axes(zaxis)
        from(c) == IF c < 2 THEN kept[c] ELSE zaxis
        affine == [r \in 0..3 |-> [c \in 0..3 |->
                      IF c < 3 THEN grid.affine[r][from(c)] * pos.d
                      ELSE IF r < 3 THEN grid.affine[r][3] * pos.d
                      ELSE 1]]
        den == AffineDen(grid) * pos.d
    IN [shape |-> [c \in 0..2 |-> IF c < 2 THEN grid.shape[kept[c]] ELSE 1],
        affine |-> affine, den |-> den, dtype |-> "float",
        basis |-> [k \in 0..1 |-> [r \in 0..2 |-> PyFloat(affine[r][k], den)]],
        normal |-> [r \in 0..2 |-> PyFloat(affine[r][2], den)]]

\* OrthoSlice.__init__(grid, zaxis, pos): the DataGrid whose first two
\* columns are those of the kept axes, whose third is that of zaxis and
\* whose origin is the grid's moved by pos along zaxis.  The affine is a
\* float array; entry [r][c] is affine[r][c] / den for r < 3.
OrthoSlice(grid, zaxis, pos) ==
    LET kept == kept_axes(zaxis)
        from(c) == IF c < 2 THEN kept[c] ELSE zaxis
        affine == [r \in 0..3 |-> [c \in 0..3 |->
                      IF c < 3 THEN grid.affine[r][from(c)] * pos.d
                      ELSE IF r < 3
                      THEN grid.affine[r][3] * pos.d + pos.n * grid.affine[r][zaxis]
                      ELSE 1]]
        den == AffineDen(grid) * pos.d
    IN [shape |-> [c \in 0..2 |-> IF c < 2 THEN grid.shape[kept[c]] ELSE 1],
        affine |-> affine, den |-> den, dtype |-> "float",
        basis |-> [k \in 0..1 |-> [r \in 0..2 |-> PyFloat(affine[r][k], den)]],
        normal |-> [r \in 0..2 |-> PyFloat(affine[r][2], den)]]

is_ortho_vector_reversed(vec, shape) ==
    LET mod2 == NumAdd(NumAdd(NumMul(vec[0], vec[0], "float"),
                              NumMul(vec[1], vec[1], "float"), "float"),
                       NumMul(vec[2], vec[2], "float"), "float")
        K == EQ_TOL_DEN * shape
        near(axis) == \E q \in {NumDiv(NumMul(vec[axis], vec[axis], "float"), mod2)} :
                         /\ 2 * q.n > q.d
                         /\ (2 * K - 1) * q.d > K * K * (q.d - q.n)
    IN IF \E axis \in 0..2 : near(axis)
       THEN LET axis == CHOOSE a \in 0..2 : near(a) /\ \A b \in 0..2 : b < a => ~near(b)
            IN [axis |-> Some(axis), sign |-> Some(-1)]
       ELSE [axis |-> None, sign |-> None]

\* is_ortho_vector(vec, shape): the first axis whose component val has
\* abs(abs(val/mod) - 1) < EQ_TOL / shape, with the sign of val, or
\* (None, None).  As abs(val) <= mod the test is
\* (val/mod)**2 > (1 - 1/K)**2 with K = shape / EQ_TOL.
is_ortho_vector(vec, shape) ==
    LET mod2 == NumAdd(NumAdd(NumMul(vec[0], vec[0], "float"),
                              NumMul(vec[1], vec[1], "float"), "float"),
                       NumMul(vec[2], vec[2], "float"), "float")
        K == EQ_TOL_DEN * shape
        near(axis) == \E q \in {NumDiv(NumMul(vec[axis], vec[axis], "float"), mod2)} :
                         /\ 2 * q.n > q.d
                         /\ (2 * K - 1) * q.d > K * K * (q.d - q.n)
    IN IF \E axis \in 0..2 : near(axis)
       THEN LET axis == CHOOSE a \in 0..2 : near(a) /\ \A b \in 0..2 : b < a => ~near(b)
            IN [axis |-> Some(axis),
                sign |-> Some(IF vec[axis].n < 0 THEN -1 ELSE 1)]
       ELSE [axis |-> None, sign |-> None]

\* QpData._get_slice(length, sign)
get_slice(length, sign) ==
    IF sign = 1
    THEN [start |-> Some(0), stop |-> Some(length), step |-> Some(1)]
    ELSE [start |-> Some(length - 1), stop |-> None, step |-> Some(-1)]

\* self.grid.spacing[idx] ** 2: the squared norm of column idx of the affine
spacing2(grid, idx) ==
    PyFloat(grid.affine[0][idx] * grid.affine[0][idx]
            + grid.affine[1][idx] * grid.affine[1][idx]
            + grid.affine[2][idx] * grid.affine[2][idx],
            AffineDen(grid) * AffineDen(grid))

\* slice_data: data_origin and data_scaled_normal
slice_normal(selfgrid, plane) ==
    LET data_normal == grid_to_grid(selfgrid, [i \in 0..2 |-> PyInt(IF i = 2 THEN 1 ELSE 0)],
                                    Some(plane), None, TRUE).value
    IN [data_origin |-> grid_to_grid(selfgrid, [i \in 0..2 |-> PyInt(0)],
                                     Some(plane), None, FALSE).value,
        data_scaled_normal |-> [idx \in 0..2 |->
            NumMul(data_normal[idx], spacing2(selfgrid, idx), "float")]]

\* slice_data: the normal axis, the in-plane axes and basis vectors, the
\* transform trans_v and the offset
slice_basis_of(selfgrid, plane, shape, n) ==
    LET dsn == n.data_scaled_normal
        data_naxis == NumArgMaxAbs(dsn)
        data_axes == kept_axes(data_naxis)
        slice_basis == [k \in 0..1 |-> [i \in 0..2 |->
            IF i = data_naxis THEN NumNeg(NumDiv(dsn[data_axes[k]], dsn[data_naxis]))
            ELSE IF i = data_axes[k] THEN PyInt(1) ELSE PyInt(0)]]
        dot == NumAdd(NumAdd(NumMul(n.data_origin[0], dsn[0], "float"),
                             NumMul(n.data_origin[1], dsn[1], "float"), "float"),
                      NumMul(n.data_origin[2], dsn[2], "float"), "float")
        slice_origin == [i \in 0..2 |->
            IF i = data_naxis THEN NumDiv(dot, dsn[data_naxis]) ELSE PyInt(0)]
        data_offset == [i \in 0..2 |->
            NumAdd(NumSub(n.data_origin[i], slice_origin[i], "float"),
                   PyFloat(1, 2), "float")]
    IN [data_origin |-> n.data_origin,
        data_naxis |-> data_naxis,
        data_axes |-> data_axes,
        slice_basis |-> slice_basis,
        slice_shape |-> [k \in 0..1 |-> shape[data_axes[k]]],
        slice_origin |-> slice_origin,
        trans_v |-> [k \in 0..1 |->
            LET v == grid_to_grid(selfgrid, slice_basis[k], None, Some(plane), TRUE).value
            IN [c \in 0..1 |-> v[c]]],
        offset |-> LET v == grid_to_grid(selfgrid, data_offset, None, Some(plane),
                                         TRUE).value
                   IN [c \in 0..1 |-> NumNeg(v[c])]]

\* rawdata[slices] for two slice objects and the integer pos on data_naxis
np_take_plane(rawdata, b, slices, pos) ==
    [shape |-> b.slice_shape,
     val |-> [i \in Indices(b.slice_shape) |->
        rawdata.val[[a \in 0..2 |->
            IF a = b.data_naxis THEN pos
            ELSE LET k == IF a = b.data_axes[0] THEN 0 ELSE 1
                 IN slices[a].start[1] + i[k] * slices[a].step[1]]]]]

\* An array of the given shape holding one value
np_full(shape, v) == [shape |-> shape, val |-> [i \in Indices(shape) |-> v]]

\* v - 100
minus_100(v) ==
    IF v.lo >= 100 THEN Num(v.hi, v.lo - 100, v.half)
    ELSE Num(v.hi - 1, v.lo + LimbBase - 100, v.half)

\* np.min(rawdata)
np_min(rawdata) ==
    CHOOSE m \in {rawdata.val[i] : i \in DOMAIN rawdata.val} :
        \A i \in DOMAIN rawdata.val : ~NumLess(rawdata.val[i], m)

\* pg.affineSlice(rawdata, slice_shape, slice_origin, slice_basis, ...): an
\* external routine.  Its output has shape slice_shape; every sample is a
\* sample of the data or the fill value cval.  The outputs modelled hold
\* one value at the first index and another elsewhere.
affineSlice_outputs(rawdata, slice_shape, cval) ==
    LET first == [a \in 0..2 |-> 0]
        last == [a \in 0..2 |-> rawdata.shape[a] - 1]
        pool == {cval, rawdata.val[first], rawdata.val[last]}
        zero == [a \in 0..1 |-> 0]
    IN {[shape |-> slice_shape,
         val |-> [i \in Indices(slice_shape) |-> IF i = zero THEN v.a ELSE v.b]] :
            v \in [a : pool, b : pool]}

slice_fast_above_zero(rawdata, b, ortho) ==
    LET slices == [a \in {b.data_axes[0], b.data_axes[1]} |->
                      IF a = b.data_axes[0]
                      THEN get_slice(rawdata.shape[ortho[1].axis[1]], ortho[1].sign[1])
                      ELSE get_slice(rawdata.shape[ortho[2].axis[1]], ortho[2].sign[1])]
        pos == RoundHalfUp(b.data_origin[b.data_naxis])
    IN IF pos > 0 /\ pos < rawdata.shape[b.data_naxis]
       THEN [path |-> "fast", slices |-> slices, pos |-> pos,
             sdata |-> np_take_plane(rawdata, b, slices, pos),
             smask |-> np_full(b.slice_shape, Smp(1))]
       ELSE [path |-> "fast", slices |-> slices, pos |-> pos,
             sdata |-> np_full(b.slice_shape, Smp(0)),
             smask |-> np_full(b.slice_shape, Smp(0))]

\* slice_data, the branch taken when both basis vectors are orthogonal:
\* the plane of the array at pos, or zeros when pos is out of range
slice_fast(rawdata, b, ortho) ==
    LET slices == [a \in {ortho[1].axis[1], ortho[2].axis[1]} |->
                      IF a = ortho[1].axis[1]
                      THEN get_slice(rawdata.shape[ortho[1].axis[1]], ortho[1].sign[1])
                      ELSE get_slice(rawdata.shape[ortho[2].axis[1]], ortho[2].sign[1])]
        pos == RoundHalfUp(b.data_origin[b.data_naxis])
    IN IF pos >= 0 /\ pos < rawdata.shape[b.data_naxis]
       THEN [path |-> "fast", slices |-> slices, pos |-> pos,
             sdata |-> np_take_plane(rawdata, b, slices, pos),
             smask |-> np_full(b.slice_shape, Smp(1))]
       ELSE [path |-> "fast", slices |-> slices, pos |-> pos,
             sdata |-> np_full(b.slice_shape, Smp(0)),
             smask |-> np_full(b.slice_shape, Smp(0))]

\* slice_data, the branch of the full affine slice: the outcomes
slice_affine(self, rawdata, b) ==
    IF self.roi
    THEN {[path |-> "affine", slices |-> None, pos |-> None,
           sdata |-> out, smask |-> np_full(b.slice_shape, Smp(1))] :
              out \in affineSlice_outputs(rawdata, b.slice_shape, Smp(0))}
    ELSE LET dmin == np_min(rawdata)
         IN {[path |-> "affine", slices |-> None, pos |-> None,
              sdata |-> [shape |-> out.shape,
                         val |-> [i \in DOMAIN out.val |->
                             IF NumLess(out.val[i], dmin) THEN Smp(0) ELSE out.val[i]]],
              smask |-> [shape |-> out.shape,
                         val |-> [i \in DOMAIN out.val |->
                             IF NumLess(out.val[i], dmin) THEN Smp(0) ELSE Smp(1)]]] :
                 out \in affineSlice_outputs(rawdata, b.slice_shape, minus_100(dmin))}

\* slice_data after the geometry b is known: the outcomes
slice_outcomes(self, rawdata, b) ==
    LET ortho == <<is_ortho_vector(b.slice_basis[0], b.slice_shape[0]),
                   is_ortho_vector(b.slice_basis[1], b.slice_shape[0])>>
    IN IF ortho[1].axis # None /\ ortho[2].axis # None
       THEN {[k \in {"path", "slices", "pos", "sdata", "smask", "ortho"} |->
                 IF k = "ortho" THEN ortho ELSE slice_fast(rawdata, b, ortho)[k]]}
       ELSE {[k \in {"path", "slices", "pos", "sdata", "smask", "ortho"} |->
                 IF k = "ortho" THEN ortho ELSE s[k]] :
                    s \in slice_affine(self, rawdata, b)}

\* grid.OrthoSlice(zaxis, pos): construction of a slice of grid g
NewOrthoSlice(g, zaxis, pos) ==
    /\ g \in DOMAIN grids
    /\ res' = [op |-> "OrthoSlice", status |-> "ok", err |-> "",
               grid |-> g, zaxis |-> zaxis, pos |-> pos,
               value |-> OrthoSlice(grids[g], zaxis, pos)]
    /\ UNCHANGED <<grids, objs>>

\* data.slice_data(plane, vol) on data set o, for the plane
\* OrthoSlice(grids[g], zaxis, pos)
SliceData(o, g, zaxis, pos, vol) ==
    /\ o \in DOMAIN objs /\ g \in DOMAIN grids
    /\ \E plane \in {OrthoSlice(grids[g], zaxis, pos)} :
       \E rawdata \in {volume(objs[o], vol)} :
       LET call == [op |-> "slice_data", obj |-> o, plane |-> plane, vol |-> vol]
       IN IF rawdata.status = "error"
          THEN res' = [k \in DOMAIN call \cup {"status", "err"} |->
                          IF k \in DOMAIN call THEN call[k] ELSE rawdata[k]]
          ELSE \E n \in {slice_normal(grids[objs[o].grid], plane)} :
               \E b \in {slice_basis_of(grids[objs[o].grid], plane,
                                        rawdata.value.shape, n)} :
               \E s \in slice_outcomes(objs[o], rawdata.value, b) :
                  res' = [k \in DOMAIN call \cup DOMAIN b \cup DOMAIN s
                                 \cup {"status", "err"} |->
                             IF k \in DOMAIN call THEN call[k]
                             ELSE IF k \in DOMAIN b THEN b[k]
                             ELSE IF k \in DOMAIN s THEN s[k]
                             ELSE IF k = "status" THEN "ok" ELSE ""]
    /\ UNCHANGED <<grids, objs>>

(***************************************************************************)
(* Specification of slicing: a data set and the grid of the viewer         *)
(***************************************************************************)
\* A viewer grid tilted by 1/50, within the tolerance of is_ortho_vector
Tilted == Affine(<<50, 1, 0, 0>>, <<0, 50, 0, 0>>, <<0, 0, 50, 0>>)

\* The grid of the data
SliceGrids(shape) ==
    {DataGrid(shape, identity4),
     DataGrid(shape, Rotated),
     DataGrid(shape, SignedPerm([i \in 0..2 |-> (i + 1) % 3], {0, 2}, shape)),
     NumpyGrid(shape, HalfOrigin, 2, "float"),
     DataGrid(shape, Shear)}

\* The grid of the viewer
ViewerGrids ==
    {DataGrid([i \in 0..2 |-> MaxDim], identity4),
     NumpyGrid([i \in 0..2 |-> MaxDim], Tilted, 50, "float")}

\* Positions of the slice along its normal axis
SlicePositions == {PyInt(-1), PyInt(0), PyInt(1), PyFloat(1, 2), PyInt(MaxDim + 1)}

InitSlice ==
    /\ \E shape \in LookupShapes : \E kind \in Kinds :
       \E G \in SliceGrids(shape) : \E V \in ViewerGrids :
          /\ V.affine # identity4 => G.affine = identity4
          /\ grids = [g \in 0..1 |-> IF g = 0 THEN G ELSE V]
          /\ objs = [o \in {0} |-> NewData("d0", 0, shape, kind)]
    /\ res = NoRes

NextSlice ==
    \/ res.op = "none" /\ \E g \in DOMAIN grids : \E zaxis \in 0..2 :
           \E pos \in SlicePositions : NewOrthoSlice(g, zaxis, pos)
    \/ res.op = "none" /\ \E o \in DOMAIN objs : \E g \in DOMAIN grids :
           \E zaxis \in 0..2 : \E pos \in SlicePositions : \E vol \in 0..(MaxVols - 1) :
               SliceData(o, g, zaxis, pos, vol)

SpecSlice == InitSlice /\ [][NextSlice]_vars

(***************************************************************************)
(* Batch scripts: Script in utils/batch.py                                 *)
(*                                                                         *)
(* A script is held in objs: objs.script is the Script object, objs.procs  *)
(* the processes it has created, objs.yaml_cases the number of cases in    *)
(* its YAML.  res.signals is the sequence of signals the script has        *)
(* emitted and res.err the exception that left the last handler.  grids    *)
(* is empty.  The handlers below thread st = [script, procs, signals, err] *)
(* and return the set of states in which the handler can end.              *)
(***************************************************************************)
\* Bounds on the cases and on the pipeline of a script
MaxCases == 2

MaxPipeline == 2

\* Implementations of a pipeline entry:
\*   sync         no sig_finished; run() returns with status SUCCEEDED
\*   sync_fails   no sig_finished; run() raises
\*   async        has sig_finished; run() returns, sig_finished comes later
\*   async_fails  has sig_finished; it is later emitted with status FAILED
\*   raises       the constructor of the implementation raises
Impls == {"sync", "sync_fails", "async", "async_fails", "raises"}

\* An emitted signal: sig_start_case(case), sig_start_process(process),
\* sig_done_process(process), sig_done_case(case), sig_finished(status)
Sig(sig, case, entry, status) ==
    [sig |-> sig, case |-> case, entry |-> entry, status |-> status]

Emit(st, s) == [st EXCEPT !.signals = Append(@, s)]

\* Script.__init__: the pipeline and the cases of the YAML
Script(cases, pipeline) ==
    [status |-> "NOTSTARTED", cases |-> cases, pipeline |-> pipeline,
     _case_num |-> 0, _process_num |-> 0,
     _current_case |-> None, _current_process |-> None]

RECURSIVE next_case(_)

RECURSIVE next_process(_)

RECURSIVE start_process(_, _)

RECURSIVE process_finished(_, _)

\* Script._next_case with Script._start_case
next_case(st) ==
    IF st.script.status # "RUNNING" THEN {st}
    ELSE IF st.script._case_num < Len(st.script.cases)
    THEN UNION {next_process(s) : s \in
            {Emit([st EXCEPT !.script._case_num = @ + 1,
                             !.script._current_case = Some(st.script._case_num + 1),
                             !.script._process_num = 0],
                  Sig("start_case", st.script._case_num + 1, 0, ""))}}
    ELSE {Emit([st EXCEPT !.script.status = "SUCCEEDED"],
               Sig("finished", 0, 0, "SUCCEEDED"))}

next_process_last_first(st) ==
    IF st.script.status # "RUNNING" THEN {st}
    ELSE IF st.script._process_num < Len(st.script.pipeline)
    THEN UNION {start_process(s, Len(st.script.pipeline) - st.script._process_num) :
                   s \in {[st EXCEPT !.script._process_num = @ + 1]}}
    ELSE UNION {next_case(s) : s \in
                   {Emit(st, Sig("done_case", st.script._current_case[1], 0, ""))}}

\* Script._next_process
next_process(st) ==
    IF st.script.status # "RUNNING" THEN {st}
    ELSE IF st.script._process_num < Len(st.script.pipeline)
    THEN UNION {start_process(s, st.script._process_num + 1) :
                   s \in {[st EXCEPT !.script._process_num = @ + 1]}}
    ELSE UNION {next_case(s) : s \in
                   {Emit(st, Sig("done_case", st.script._current_case[1], 0, ""))}}

\* Script._start_process for pipeline entry number entry.  When the
\* constructor raises, the except clause sets an attribute of the parameter
\* dictionary, and that AttributeError leaves the handler.
start_process(st, entry) ==
    LET impl == st.script.pipeline[entry]
        case == st.script._current_case[1]
        pid == Len(st.procs) + 1
        started(status) ==
            Emit([st EXCEPT
                    !.procs = Append(@, [case |-> case, entry |-> entry,
                                         impl |-> impl, status |-> status,
                                         connected |-> impl \in {"async", "async_fails"},
                                         cancelled |-> FALSE]),
                    !.script._current_process = Some(pid)],
                 Sig("start_process", case, entry, ""))
    IN IF impl = "raises"
       THEN {[st EXCEPT !.err = "AttributeError"]}
       ELSE IF impl = "sync"
       THEN UNION {process_finished(s, "SUCCEEDED") : s \in {started("SUCCEEDED")}}
       ELSE IF impl = "sync_fails"
       THEN UNION {process_finished(s, "FAILED") : s \in {started("FAILED")}}
       ELSE {started("RUNNING")}

\* Script._process_finished
process_finished(st, status) ==
    IF st.script.status # "RUNNING" THEN {st}
    ELSE UNION {next_process(s) : s \in
            {LET pid == st.script._current_process[1]
             IN Emit([st EXCEPT !.procs[pid].connected = FALSE],
                     Sig("done_process", st.procs[pid].case, st.procs[pid].entry,
                         st.procs[pid].status))}}

\* Script.start
start(st) ==
    UNION {next_case(s) : s \in
              {[st EXCEPT !.script.cases = IF @ = <<>> THEN <<"case">> ELSE @,
                          !.script.status = "RUNNING",
                          !.script._case_num = 0]}}

\* The process pid emits sig_finished(status): the slot connected to it runs
sig_finished(st, pid, status) ==
    IF st.procs[pid].connected
    THEN UNION {process_finished(s, status) :
                   s \in {[st EXCEPT !.procs[pid].status = status]}}
    ELSE {[st EXCEPT !.procs[pid].status = status]}

cancel_script(st) ==
    IF st.script._current_process # None
    THEN {[st EXCEPT !.script.status = "CANCELLED",
                     !.procs[st.script._current_process[1]].cancelled = TRUE]}
    ELSE {st}

\* Script.cancel: cancel() of the current process.  A process that is
\* running is cancelled and emits sig_finished with status CANCELLED
\* either at once or later.
cancel(st) ==
    IF st.script._current_process # None
    THEN LET pid == st.script._current_process[1]
         IN IF st.procs[pid].status = "RUNNING"
            THEN UNION {{s} \cup sig_finished(s, pid, "CANCELLED") :
                           s \in {[st EXCEPT !.procs[pid].cancelled = TRUE]}}
            ELSE {st}
    ELSE {st}

\* The state threaded through the handlers, and its return to the variables
ScriptState ==
    [script |-> objs.script, procs |-> objs.procs, signals |-> res.signals, err |-> ""]

Commit(st) ==
    /\ objs' = [objs EXCEPT !.script = st.script, !.procs = st.procs]
    /\ res' = [res EXCEPT !.signals = st.signals, !.err = st.err]
    /\ UNCHANGED grids

\* script.start()
Start ==
    /\ objs.script.status = "NOTSTARTED"
    /\ \E s \in {ScriptState} : \E st \in start(s) : Commit(st)

\* script.cancel() on a script that has been started
Cancel ==
    /\ objs.script.status # "NOTSTARTED"
    /\ \E s \in {ScriptState} : \E st \in cancel(s) : Commit(st)

\* A running process reports that it has finished
ProcessReports(pid) ==
    /\ pid \in DOMAIN objs.procs
    /\ objs.procs[pid].status = "RUNNING"
    /\ LET status == IF objs.procs[pid].cancelled THEN "CANCELLED"
                     ELSE IF objs.procs[pid].impl = "async_fails" THEN "FAILED"
                     ELSE "SUCCEEDED"
       IN \E s \in {ScriptState} : \E st \in sig_finished(s, pid, status) : Commit(st)

\* Sequences over S of length at most n
SeqUpTo(S, n) == UNION {[1..k -> S] : k \in 0..n}

CaseIds == [k \in 1..(MaxCases + 1) |-> <<"c", k>>]

InitScript ==
    /\ grids = <<>>
    /\ \E n \in 0..MaxCases : \E pipeline \in SeqUpTo(Impls, MaxPipeline) :
          objs = [script |-> Script([k \in 1..n |-> CaseIds[k]], pipeline),
                  procs |-> <<>>, yaml_cases |-> n]
    /\ res = [op |-> "script", status |-> "ok", err |-> "", signals |-> <<>>]

NextScript ==
    \/ Start
    \/ Cancel
    \/ \E pid \in 1..(MaxCases + 1) * (MaxPipeline + 1) : ProcessReports(pid)

SpecScript == InitScript /\ [][NextScript]_vars

\* Every process that is running reports in the end
SpecScriptFair ==
    SpecScript /\ WF_vars(\E pid \in 1..(MaxCases + 1) * (MaxPipeline + 1) : ProcessReports(pid))

(***************************************************************************)
(* Properties                                                              *)
(***************************************************************************)
\* C1: in every reachable state of a data set, roi = TRUE implies nvols = 1
C1_RoiIsSingleVolume ==
    \A o \in DOMAIN objs : objs[o].roi => objs[o].nvols = 1

\* C2: no operation changes the shape or the affine of a constructed grid
C2_GridsNeverChange ==
    [][\A g \in DOMAIN grids : grids'[g] = grids[g]]_vars

\* Voxels of a grid and their world positions
Voxels(grid) == Indices(grid.shape)

WorldPoints(grid) == {grid_to_world(grid, v) : v \in Voxels(grid)}

\* The source and target grid of the resample call recorded in res
SourceGrid == grids[res.self.grid]

TargetGrid == grids[res.grid]

\* C3: the array returned by resample has the shape of the target grid,
\* followed by the unchanged volume axis for 4D data
C3_ResampledShapeIsTarget ==
    (res.op = "resample" /\ res.status = "ok") =>
        /\ ndim(res.data) = ndim(raw(res.self))
        /\ \A i \in 0..2 : res.data.shape[i] = TargetGrid.shape[i]
        /\ ndim(res.data) = 4 => res.data.shape[3] = raw(res.self).shape[3]

\* The source-to-target voxel transform inv(target.affine) * source.affine
VoxelTransform == RatMul(MatInv(TargetGrid.affine), SourceGrid.affine)

\* T is an axis permutation with sign flips (and a translation)
IsSignedPermutation(T) ==
    /\ \A c \in 0..2 : \E r \in 0..2 :
          /\ Abs(T.num[r][c]) = T.den
          /\ \A r2 \in 0..2 : r2 # r => T.num[r2][c] = 0
    /\ \A r \in 0..2 : \E c \in 0..2 : T.num[r][c] # 0

\* The target voxel a source voxel is mapped to (for a signed permutation
\* with an integer translation)
TargetVoxel(T, s) ==
    [r \in 0..2 |->
        (T.num[r][0]*s[0] + T.num[r][1]*s[1] + T.num[r][2]*s[2] + T.num[r][3]) \div T.den]

\* Every source voxel coincides with exactly one target voxel
VoxelsCoincide ==
    LET T == VoxelTransform
    IN /\ IsSignedPermutation(T)
       /\ \A r \in 0..2 : T.num[r][3] % T.den = 0
       /\ {TargetVoxel(T, s) : s \in Voxels(SourceGrid)} = Voxels(TargetGrid)

\* An index of the source array and the index of the coinciding target sample
WithVolume(t, idx) ==
    [a \in DOMAIN idx |-> IF a < 3 THEN t[a] ELSE idx[a]]

\* C4: when the voxels of source and target coincide, each target sample of
\* the resampled array is the source sample of the coinciding voxel
C4_PermutedSamplesMatch ==
    (res.op = "resample" /\ VoxelsCoincide) =>
        /\ res.status = "ok"
        /\ DOMAIN res.data.val = {WithVolume(TargetVoxel(VoxelTransform, idx), idx) :
                                      idx \in DOMAIN raw(res.self).val}
        /\ \A idx \in DOMAIN raw(res.self).val :
              res.data.val[WithVolume(TargetVoxel(VoxelTransform, idx), idx)]
                  = raw(res.self).val[idx]

\* v lies in [0, 2**32)
InRoiRange(v) == ~IsNegative(v) /\ ~Above2Pow32(v) /\ v # Num(LimbBase, 0, 0)

RoiInterpolated == res.op = "resample" /\ res.self.roi /\ res.path = "affine"

\* C5: an interpolated ROI array with a non-integer value is rejected with
\* 'ROIs must contain integers only' (read for arrays within the value range,
\* which is checked first)
C5_NonIntegerRejected ==
    (/\ RoiInterpolated
     /\ \A idx \in DOMAIN res.interp.val : InRoiRange(res.interp.val[idx])
     /\ \E idx \in DOMAIN res.interp.val : ~IsInteger(res.interp.val[idx])) =>
        (res.status = "error" /\ res.err = "ROIs must contain integers only")

\* C6: an interpolated ROI array is rejected with 'ROIs must contain values
\* between 0 and 2**32' when it holds a value below 0 or of 2**32 or more,
\* and not rejected with that error when all values lie in [0, 2**32)
C6_RangeRejected ==
    RoiInterpolated =>
        IF \A idx \in DOMAIN res.interp.val : InRoiRange(res.interp.val[idx])
        THEN res.err # "ROIs must contain values between 0 and 2**32"
        ELSE res.status = "error"
             /\ res.err = "ROIs must contain values between 0 and 2**32"

\* C7: resampling onto the data's own grid returns the source array,
\* element for element, without transpose, flip or interpolation
C7_OwnGridResampleIsIdentity ==
    (res.op = "resample" /\ TargetGrid = SourceGrid) =>
        /\ res.status = "ok"
        /\ res.path = "direct"
        /\ res.reorder = range3
        /\ res.flip = <<>>
        /\ res.data = raw(res.self)

C7_Witness ==
    /\ res.op = "resample" /\ TargetGrid = SourceGrid
    /\ SourceGrid.affine = Rotated
    /\ ndim(res.data) = 4
    /\ \E i \in 0..2 : SourceGrid.shape[i] > 1
    /\ res.data = raw(res.self)

\* The rows simplify_transforms picks for the three columns of M
PickedRows(M) ==
    [c \in 0..2 |-> CHOOSE r \in 0..3 :
        /\ \A r2 \in 0..3 : Abs(M[r2][c]) <= Abs(M[r][c])
        /\ \A r2 \in 0..3 : r2 < r => Abs(M[r2][c]) < Abs(M[r][c])]

IsAxisBijection(M) == {PickedRows(M)[c] : c \in 0..2} = 0..2

\* C8: get_standard returns a grid that defines the same space: its voxels
\* have the same world positions as the voxels of the original grid, for
\* every grid whose axis assignment is a bijection
C8_StandardDefinesSameSpace ==
    (res.op = "get_standard" /\ IsAxisBijection(grids[res.grid].affine)) =>
        WorldPoints(res.value) = WorldPoints(grids[res.grid])

\* C9: simplify_transforms picks for each column the row with the largest
\* absolute coefficient; when the picked rows are not a permutation of
\* {0,1,2} it returns the identity order, no flips and the input matrix
C9_InconsistentPickFallsBack ==
    res.op = "simplify_transforms" =>
        IF IsAxisBijection(res.mat.num)
        THEN res.value.dim_order = PickedRows(res.mat.num)
        ELSE /\ res.value.dim_order = range3
             /\ res.value.dim_flip = <<>>
             /\ res.value.new_mat = res.mat

C9_Witness ==
    /\ res.op = "simplify_transforms"
    /\ ~IsAxisBijection(res.mat.num)
    /\ \E c \in 0..2 : res.mat.num[PickedRows(res.mat.num)[c]][c] < 0
    /\ res.value.new_mat = res.mat
    /\ res.value.dim_flip = <<>>

\* The world axis on which grid axis g has its largest-magnitude component
DominantWorldAxis(grid, g) ==
    CHOOSE w \in 0..2 :
        /\ \A w2 \in 0..2 : Abs(grid.affine[w2][g]) <= Abs(grid.affine[w][g])
        /\ \A w2 \in 0..2 : w2 < w => Abs(grid.affine[w2][g]) < Abs(grid.affine[w][g])

\* C10 as stated: entry w of get_ras_axes() is the grid axis g that
\* maximises |transform[w][g]| over the three grid axes
C10_RowMaximum ==
    (res.op = "get_ras_axes" /\ res.status = "ok") =>
        \A w \in 0..2 : \A g \in 0..2 :
            Abs(grids[res.grid].affine[w][g])
                <= Abs(grids[res.grid].affine[w][res.value[w]])

\* C10 amended: entry w of get_ras_axes() is the first grid axis whose
\* largest-magnitude component lies on world axis w, and entry 3 is 3
C10_InverseOfColumnMaximum ==
    (res.op = "get_ras_axes" /\ res.status = "ok") =>
        /\ \A w \in 0..2 :
              /\ res.value[w] \in 0..2
              /\ DominantWorldAxis(grids[res.grid], res.value[w]) = w
              /\ \A g \in 0..2 : g < res.value[w] =>
                     DominantWorldAxis(grids[res.grid], g) # w
        /\ res.value[3] = 3

C10_Witness ==
    /\ res.op = "get_ras_axes" /\ res.status = "ok"
    /\ grids[res.grid].affine = Oblique
    /\ res.value[0] = 1 /\ res.value[1] = 0

\* C11: for every grid with an invertible transform, get_ras_axes() returns
\* without error a list of 4 integers whose first three are a permutation
\* of {0,1,2} and whose fourth is 3
C11_RasAxesAlwaysReturned ==
    (res.op = "get_ras_axes" /\ Det3(grids[res.grid].affine) # 0) =>
        /\ res.status = "ok"
        /\ DOMAIN res.value = 0..3
        /\ {res.value[i] : i \in 0..2} = 0..2
        /\ res.value[3] = 3

\* The grid a grid_to_grid call reads for an argument: the one given, or self
GridArg(ref) == IF ref = NoGrid THEN grids[res.grid] ELSE grids[ref]

\* C12: grid_to_grid raises an error and computes nothing when from_grid and
\* to_grid are both omitted or both supplied; when exactly one is supplied
\* the other is self and the result is
\* to_grid.world_to_grid(from_grid.grid_to_world(coord))
C12_ExactlyOneGrid ==
    res.op = "grid_to_grid" =>
        IF (res.from_grid = NoGrid) = (res.to_grid = NoGrid)
        THEN res.status = "error" /\ res.value = None
        ELSE /\ res.status = "ok"
             /\ res.value = world_to_grid(GridArg(res.to_grid),
                                grid_to_world_list(GridArg(res.from_grid),
                                                   res.coord, res.direction),
                                res.direction)

C12_Witness ==
    /\ res.op = "grid_to_grid" /\ res.status = "ok"
    /\ res.grid = 0 /\ res.from_grid = 1 /\ res.to_grid = NoGrid
    /\ ~res.direction
    /\ \E i \in 0..2 : ~NumEq(res.value[i], res.coord[i])

\* C13: g.world_to_grid(g.grid_to_world(c)) equals c for 3D and 4D
\* co-ordinates (the fourth entry passed through unchanged), for integer
\* and fractional co-ordinates and origins
C13_RoundTrip ==
    (/\ res.op = "grid_to_grid" /\ res.status = "ok" /\ ~res.direction
     /\ \/ res.from_grid = res.grid /\ res.to_grid = NoGrid
        \/ res.from_grid = NoGrid /\ res.to_grid = res.grid) =>
        /\ DOMAIN res.value = DOMAIN res.coord
        /\ \A i \in 0..2 : NumEq(res.value[i], res.coord[i])
        /\ 3 \in DOMAIN res.coord => res.value[3] = res.coord[3]

C13_Witness ==
    /\ res.op = "grid_to_grid" /\ res.status = "ok" /\ ~res.direction
    /\ res.from_grid = res.grid /\ res.to_grid = NoGrid
    /\ AffineDen(grids[res.grid]) = 2
    /\ ArrayDtype(res.coord) = "int"
    /\ res.coord[0] = PyInt(1)

\* The rounded index of a looked-up position in the grid of the data, and
\* whether it lies inside the array
LookupGrid == IF res.grid = NoGrid THEN default_grid ELSE grids[res.grid]

LookupCoords ==
    world_to_grid(grids[objs[res.obj].grid],
                  grid_to_world_list(LookupGrid, [i \in 0..2 |-> res.pos[i]], FALSE),
                  FALSE)

LookupIndex == [i \in 0..2 |-> RoundHalfUp(LookupCoords[i])]

LookupInside ==
    \A i \in 0..2 : LookupIndex[i] \in 0..(raw(objs[res.obj]).shape[i] - 1)

\* The volume an index selects, out-of-bounds indices selecting the last
ClampedVolume(self, vol) ==
    IF self.ndim = 3 THEN raw(self)
    ELSE np_take_volume(raw(self),
                        IF vol \in 0..(self.nvols - 1) THEN vol ELSE self.nvols - 1)

\* C14: volume(index) never raises; it returns the full array of 3D data,
\* volume index of 4D data when 0 <= index < nvols, and the last volume for
\* every other index
C14_VolumeClamps ==
    res.op = "volume" =>
        /\ res.status = "ok"
        /\ res.value = ClampedVolume(objs[res.obj], res.vol)

\* C15: value() with a 4D position never raises; it returns 0 when a
\* co-ordinate of the position in the data grid is negative or the rounded
\* index is outside the array, and the sample at the rounded index of the
\* selected volume otherwise
C15_ValueNeverRaises ==
    (res.op = "value" /\ 3 \in DOMAIN res.pos) =>
        /\ res.status = "ok"
        /\ IF (\E i \in 0..2 : LookupCoords[i].n < 0) \/ ~LookupInside
           THEN res.value = Smp(0)
           ELSE res.value = ClampedVolume(objs[res.obj], res.pos[3].n).val[LookupIndex]

\* C16: for 3D data and a position of 3 entries inside the grid, value()
\* returns the sample at that voxel and timeseries() a one-element list
\* holding it, without raising
C16_ThreeEntryPosition ==
    (/\ res.op \in {"value", "timeseries"}
     /\ objs[res.obj].nvols = 1
     /\ DOMAIN res.pos = 0..2
     /\ LookupInside) =>
        /\ res.status = "ok"
        /\ res.value = IF res.op = "value"
                       THEN raw(objs[res.obj]).val[LookupIndex]
                       ELSE <<raw(objs[res.obj]).val[LookupIndex]>>

\* C17: timeseries() returns an empty sequence when the rounded index is
\* outside the data, for 3D and for 4D data, and one value per volume
\* otherwise
C17_TimeseriesEmptyOutside ==
    res.op = "timeseries" =>
        /\ res.status = "ok"
        /\ IF ~LookupInside THEN res.value = <<>>
           ELSE /\ Len(res.value) = objs[res.obj].nvols
                /\ \A k \in 1..objs[res.obj].nvols :
                      res.value[k] = ClampedVolume(objs[res.obj], k - 1).val[LookupIndex]

\* The distinct whole-number labels greater than 0 of the raw array of the
\* data set of the last call
CurrentLabels ==
    {v \in {raw(objs[res.obj]).val[idx] : idx \in DOMAIN raw(objs[res.obj]).val} :
        IsInteger(v) /\ NumLess(Smp(0), v)}

\* Every sample of that array is a whole number, as in an ROI
WholeNumbers ==
    \A idx \in DOMAIN raw(objs[res.obj]).val : IsInteger(raw(objs[res.obj]).val[idx])

IsAscending(s) == \A i, j \in 1..Len(s) : i < j => NumLess(s[i], s[j])

\* C18: a regions() call that follows an earlier regions() call and a change
\* of the raw array returns the sorted distinct positive labels of the
\* current array (of whole numbers), not the list cached before
C18_RegionsFollowData ==
    (res.op = "regions" /\ res.status = "ok" /\ res.cached /\ WholeNumbers) =>
        /\ {res.value[i] : i \in 1..Len(res.value)} = CurrentLabels
        /\ IsAscending(res.value)

C20_SetRoiChecksVolumes ==
    [][res'.op = "set_roi" =>
          /\ grids' = grids
          /\ IF res'.arg /\ objs[res'.obj].nvols # 1
             THEN /\ res'.status = "error"
                  /\ res'.err = "ROIs must be static (single volume) 3D data"
                  /\ objs' = objs
             ELSE /\ res'.status = "ok"
                  /\ objs' = [objs EXCEPT ![res'.obj].roi = res'.arg]]_vars

C20_Witness ==
    /\ res.op = "set_roi" /\ res.status = "error" /\ res.arg
    /\ objs[res.obj].nvols = MaxVols
    /\ ~objs[res.obj].roi

\* C29: after an ROI resample that goes through interpolation and passes
\* validation, every label of the returned array equals the validated
\* interpolated value (whole numbers): the cast to a 32-bit signed integer
\* changes no value the range check accepts
C29_CastKeepsLabels ==
    (/\ RoiInterpolated /\ res.status = "ok"
     /\ \A idx \in DOMAIN res.interp.val : IsInteger(res.interp.val[idx])) =>
        \A idx \in DOMAIN res.interp.val : res.data.val[idx] = res.interp.val[idx]

\* The nonzero voxels of the data set of the last call
NonzeroVoxels ==
    {idx \in DOMAIN raw(objs[res.obj]).val : raw(objs[res.obj]).val[idx] # Smp(0)}

\* C21: for an ROI with a nonzero voxel, get_bounding_box returns for each
\* axis k < min(ndim, 3) the range [lo_k, hi_k + 1) of the smallest and
\* largest index of a nonzero voxel along axis k: every nonzero voxel is
\* inside and both ends are attained
C21_BoundingBoxIsTight ==
    (res.op = "get_bounding_box" /\ objs[res.obj].roi /\ NonzeroVoxels # {}) =>
        /\ res.status = "ok"
        /\ \A k \in 0..2 : k < res.ndim =>
              /\ res.value[k].step = None
              /\ \A idx \in NonzeroVoxels :
                    /\ res.value[k].start[1] <= idx[k]
                    /\ idx[k] < res.value[k].stop[1]
              /\ \E idx \in NonzeroVoxels : idx[k] = res.value[k].start[1]
              /\ \E idx \in NonzeroVoxels : idx[k] = res.value[k].stop[1] - 1

C21_Witness ==
    /\ res.op = "get_bounding_box" /\ res.status = "ok" /\ res.ndim = 3
    /\ Cardinality(NonzeroVoxels) = 2
    /\ res.value[0] = slice_range(MaxDim - 1, MaxDim)
    /\ res.value[1] = slice_range(0, 2)
    /\ res.value[2] = slice_range(1, 2)

\* C22: for every ROI, whatever its contents, and every ndim >= 1,
\* get_bounding_box(ndim) returns exactly ndim ranges, those of the axes
\* beyond the third being the full range; on non-ROI data it raises an error
C22_BoundingBoxAlwaysReturned ==
    res.op = "get_bounding_box" =>
        IF objs[res.obj].roi
        THEN /\ res.status = "ok"
             /\ DOMAIN res.value = 0..(res.ndim - 1)
             /\ \A k \in DOMAIN res.value : k >= 3 => res.value[k] = slice_all
        ELSE res.status = "error"

\* The data masked by the last mask call, and its ROI array
MaskedData == mask_data(objs[res.obj], res.vol).value

MaskRoi == raw(objs[res.roi])

\* The voxels the last mask call selects: those of the region (or of any
\* positive label), or the others when invert is set
MaskSelects(v) ==
    LET inside == IF res.region = None THEN NumLess(Smp(0), MaskRoi.val[v])
                  ELSE MaskRoi.val[v] = res.region[1]
    IN inside # res.invert

MaskSelection == {v \in DOMAIN MaskRoi.val : MaskSelects(v)}

\* v comes before w in row-major order
LexLess(v, w) ==
    \/ v[0] < w[0]
    \/ v[0] = w[0] /\ v[1] < w[1]
    \/ v[0] = w[0] /\ v[1] = w[1] /\ v[2] < w[2]

\* The array returned by the last mask call
MaskOutput == IF res.output_mask THEN res.value[1] ELSE res.value

RoiOnSameGrid ==
    /\ res.op = "mask" /\ res.roi # NoData
    /\ grids[objs[res.roi].grid] = grids[objs[res.obj].grid]

\* C23: mask() with an roi on the same grid returns the data at every
\* selected voxel and 0 elsewhere, the selection being roi > 0 (or
\* roi == region), complemented by invert; with output_flat it returns
\* exactly the values of the selected voxels
C23_MaskSelectsRegion ==
    RoiOnSameGrid =>
        /\ res.status = "ok"
        /\ IF res.output_flat
           THEN /\ MaskOutput.shape[0] = Cardinality(MaskSelection)
                /\ \A v \in MaskSelection :
                      LET k == Cardinality({w \in MaskSelection : LexLess(w, v)})
                      IN IF ndim(MaskedData) = 4
                         THEN \A t \in 0..(MaskedData.shape[3] - 1) :
                                 MaskOutput.val[[a \in 0..1 |-> IF a = 0 THEN k ELSE t]]
                                     = MaskedData.val[[a \in 0..3 |-> IF a < 3 THEN v[a] ELSE t]]
                         ELSE MaskOutput.val[[a \in {0} |-> k]] = MaskedData.val[v]
           ELSE /\ MaskOutput.shape = MaskedData.shape
                /\ \A idx \in DOMAIN MaskedData.val :
                      MaskOutput.val[idx] = IF MaskSelects(spatial(idx))
                                            THEN MaskedData.val[idx] ELSE Smp(0)
        /\ res.output_mask =>
              \A v \in DOMAIN MaskRoi.val : res.value[2].val[v] = MaskSelects(v)

C23_Witness ==
    /\ RoiOnSameGrid /\ res.status = "ok"
    /\ objs[res.roi].grid # objs[res.obj].grid
    /\ res.invert /\ res.region # None /\ res.output_flat /\ ~res.output_mask
    /\ Cardinality(MaskSelection) = 2
    /\ ~MaskSelects([a \in 0..2 |-> 0])
    /\ res.value.shape[0] = 2


\* The two axes other than z, in ascending order
RetainedAxes(z) == <<CHOOSE a \in 0..2 : a # z /\ \A c \in 0..2 : c # z => a <= c,
                     CHOOSE b \in 0..2 : b # z /\ \A c \in 0..2 : c # z => c <= b>>

\* The grid coordinate with i on axis a, j on axis b and p on axis z
OnAxes(z, i, j, p) ==
    [c \in 0..2 |-> IF c = z THEN p
                    ELSE IF c = RetainedAxes(z)[1] THEN PyInt(i) ELSE PyInt(j)]

\* C24: an OrthoSlice built from grid g with slice axis z and position p has
\* shape [g.shape[a], g.shape[b], 1] for the retained axes a < b, its normal
\* is column z of g's transform, and it maps plane coordinate (i, j, 0) to
\* the world point to which g maps the coordinate with i on a, j on b, p on z
C24_OrthoSliceGeometry ==
    res.op = "OrthoSlice" =>
        LET g == grids[res.grid]
            z == res.zaxis
            ab == RetainedAxes(z)
        IN /\ ab[1] < ab[2]
           /\ res.value.shape = [c \in 0..2 |-> IF c = 2 THEN 1 ELSE g.shape[ab[c + 1]]]
           /\ \A r \in 0..2 : NumEq(res.value.normal[r], TransformAt(g, r, z))
           /\ \A i \in 0..1 : \A j \in 0..1 : \A r \in 0..2 :
                 NumEq(grid_to_world_list(res.value,
                           [c \in 0..2 |-> PyInt(IF c = 0 THEN i ELSE IF c = 1 THEN j ELSE 0)],
                           FALSE)[r],
                       grid_to_world_list(g, OnAxes(z, i, j, res.pos), FALSE)[r])

\* C24 witness: a slice across the middle axis of a rotated grid, half a
\* voxel from its origin
C24_Witness ==
    /\ res.op = "OrthoSlice"
    /\ res.zaxis = 1
    /\ res.pos = PyFloat(1, 2)
    /\ grids[res.grid].affine = Rotated
    /\ res.value.shape[2] = 1

\* The plane of the volume at position p of the normal axis, indexed by the
\* in-plane axes in the array's own order
ArrayPlane(p) ==
    LET rawdata == volume(objs[res.obj], res.vol).value
        ab == RetainedAxes(res.data_naxis)
    IN [i \in Indices([k \in 0..1 |-> rawdata.shape[ab[k + 1]]]) |->
           rawdata.val[[a \in 0..2 |-> IF a = res.data_naxis THEN p
                                       ELSE IF a = ab[1] THEN i[0] ELSE i[1]]]]

\* The shape of a 2D slice of the volume across the normal axis
PlaneShape ==
    LET rawdata == volume(objs[res.obj], res.vol).value
        ab == RetainedAxes(res.data_naxis)
    IN [k \in 0..1 |-> rawdata.shape[ab[k + 1]]]

\* The rounded position of the slice along the normal axis of the data
SlicePos == RoundHalfUp(res.data_origin[res.data_naxis])

FastPath == res.op = "slice_data" /\ res.status = "ok" /\ res.path = "fast"

SliceInRange ==
    SlicePos >= 0 /\ SlicePos < volume(objs[res.obj], res.vol).value.shape[res.data_naxis]

\* C25: in the fast path of slice_data, a rounded position inside the data
\* gives a mask of ones and the array plane at that position; a position
\* outside gives data and mask of zeros with the 2D shape of the slice
C25_FastPathInAndOutOfRange ==
    FastPath =>
        /\ res.sdata.shape = PlaneShape
        /\ res.smask.shape = PlaneShape
        /\ IF SliceInRange
           THEN /\ \A i \in DOMAIN res.smask.val : res.smask.val[i] = Smp(1)
                /\ res.sdata.val = ArrayPlane(SlicePos)
           ELSE /\ \A i \in DOMAIN res.smask.val : res.smask.val[i] = Smp(0)
                /\ \A i \in DOMAIN res.sdata.val : res.sdata.val[i] = Smp(0)

\* C25 witness: a plane of a data set with more than one plane, taken at
\* the origin of the normal axis through a tilted viewer grid: a basis
\* vector leans along the normal axis, within the tolerance
C25_Witness ==
    /\ FastPath
    /\ SliceInRange
    /\ SlicePos = 0
    /\ volume(objs[res.obj], res.vol).value.shape[res.data_naxis] > 1
    /\ grids[1].affine = Tilted
    /\ \E k \in 0..1 : res.slice_basis[k][res.data_naxis].n # 0

\* C30: in the fast path of slice_data both basis vectors have component +1
\* on their own axis, both axes are stepped forward from 0 and the data is
\* indexed in the order of the array whatever the orientation of the plane
C30_FastPathStepsForward ==
    FastPath =>
        LET rawdata == volume(objs[res.obj], res.vol).value
            ab == RetainedAxes(res.data_naxis)
        IN /\ \A k \in 0..1 :
                 /\ res.slice_basis[k][ab[k + 1]] = PyInt(1)
                 /\ res.ortho[k + 1] = [axis |-> Some(ab[k + 1]), sign |-> Some(1)]
                 /\ res.slices[ab[k + 1]] =
                       [start |-> Some(0), stop |-> Some(rawdata.shape[ab[k + 1]]),
                        step |-> Some(1)]
           /\ SliceInRange => res.sdata.val = ArrayPlane(SlicePos)

\* C30 witness: a plane whose first axis runs against an axis of the data:
\* the transform to the plane has a negative entry
C30_Witness ==
    /\ FastPath
    /\ SliceInRange
    /\ PlaneShape[0] > 1
    /\ \E k \in 0..1 : \E c \in 0..1 : res.trans_v[k][c].n < 0


\* The signals of one kind among the first n signals emitted
SignalsOf(sig, n) ==
    SelectSeq(SubSeq(res.signals, 1, n), LAMBDA s : s.sig = sig)

AllSignals(sig) == SignalsOf(sig, Len(res.signals))

ScriptFinished == AllSignals("finished") # <<>>

\* Cases are started in list order, processes in pipeline order within the
\* case that was started last, and no process is started before the
\* process started before it has been reported finished
StartsInOrder ==
    LET P == Len(objs.script.pipeline)
    IN \A i \in 1..Len(res.signals) :
          LET s == res.signals[i]
          IN /\ s.sig = "start_case" => s.case = Len(SignalsOf("start_case", i))
             /\ s.sig = "start_process" =>
                   LET m == Len(SignalsOf("start_process", i))
                   IN /\ s.case = Len(SignalsOf("start_case", i))
                      /\ s.case = ((m - 1) \div P) + 1
                      /\ s.entry = ((m - 1) % P) + 1
                      /\ Len(SignalsOf("done_process", i)) = m - 1
                      /\ m > 1 =>
                            LET d == SignalsOf("done_process", i)[m - 1]
                                p == SignalsOf("start_process", i)[m - 1]
                            IN d.case = p.case /\ d.entry = p.entry

FinishedOnce ==
    /\ Len(AllSignals("finished")) <= 1
    /\ ScriptFinished =>
          /\ res.signals[Len(res.signals)] = Sig("finished", 0, 0, "SUCCEEDED")
          /\ objs.script.status = "SUCCEEDED"
          /\ Len(res.signals) > 1
          /\ res.signals[Len(res.signals) - 1]
                = Sig("done_case", Len(objs.script.cases), 0, "")

\* C27: a started script whose processes all report emits sig_finished in
\* the end, exactly once, after the last sig_done_case and with status
\* SUCCEEDED, whether or not processes have failed
C27_ScriptFinishes ==
    /\ []FinishedOnce
    /\ (objs.script.status # "NOTSTARTED") ~> ScriptFinished

\* No entry of the pipeline has an implementation whose constructor raises
AllConstructed == \A k \in DOMAIN objs.script.pipeline : objs.script.pipeline[k] # "raises"

\* A step in which cancel() cancels the running process
CancelStep ==
    /\ objs.script.status = "RUNNING"
    /\ objs.script._current_process # None
    /\ LET pid == objs.script._current_process[1]
       IN /\ objs.procs[pid].status = "RUNNING"
          /\ ~objs.procs[pid].cancelled
          /\ objs'.procs[pid].cancelled

=============================================================================
